---- MODULE Spec2Model ----
(***************************************************************************)
(* Model of the SSA node kernel of noirc_evaluator (ssa/node.rs): the      *)
(* type lattice, the node arena, constant folding (Instruction::evaluate,  *)
(* Binary::evaluate, wrapping), trivial-phi detection and the commutative  *)
(* canonical form.                                                         *)
(*                                                                         *)
(* Machine integers are modelled with their width.  TLC's integers are 32  *)
(* bits wide, so the 128-bit word of the source (u128) is modelled as a    *)
(* word of U128Bits bits and the prime field as the integers modulo a      *)
(* prime FieldModulus of FieldBits > U128Bits bits; every width-dependent  *)
(* step of the source (the `%` and `<<` of wrapping, to_u128,              *)
(* try_into_u128, overflow of u128::add / u128::mul, shifts by at least    *)
(* the word width) is computed relative to that word.  Integer types are   *)
(* narrower than the word, as the source requires (bit_size <              *)
(* short_integer_max_bit_size() <= 128); types of at most half the word    *)
(* (8 bits here, 64 in the source) cannot overflow a product, wider ones   *)
(* (MaxWidth here, 65..126 in the source) can.                             *)
(***************************************************************************)
EXTENDS Integers, Sequences, FiniteSets, TLC

\* Width of the machine word standing for u128.
U128Bits == 16

\* Longest phi argument list explored.
MaxArgs == 3

\* The number of fold results interned in one run
MaxFolds == 2

Pow2(n) == 2 ^ n

U128Modulus == Pow2(U128Bits)

U128Max == U128Modulus - 1

\* FieldElement::max_num_bits(): the bit length of the field modulus.
FieldBits == U128Bits + 2

\* n is prime; n has at most FieldBits bits, so a proper divisor, if any,
\* is found below 2^(FieldBits/2)
IsPrime(n) ==
    n > 1 /\ \A d \in 2..Pow2((FieldBits + 1) \div 2) : d >= n \/ n % d # 0

\* The field modulus: the least prime of FieldBits bits.
FieldModulus ==
    CHOOSE p \in (Pow2(FieldBits - 1) + 1)..(Pow2(FieldBits) - 1) :
        IsPrime(p) /\ \A q \in (Pow2(FieldBits - 1) + 1)..(p - 1) : ~IsPrime(q)

\* The widest integer type: bit_size < short_integer_max_bit_size()
MaxWidth == U128Bits - 2

\* (a * b) mod m by doubling, every intermediate value below 2 * m
RECURSIVE MulMod(_, _, _)
MulMod(a, b, m) ==
    IF b = 0 THEN 0
    ELSE (((2 * MulMod(a, b \div 2, m)) % m) + (b % 2) * (a % m)) % m

\* Option<T>
None == <<>>

Some(x) == <<x>>

IsSome(o) == o # <<>>

Unwrap(o) == o[1]

(***************************************************************************)
(* ObjectType                                                              *)
(***************************************************************************)
NativeField == [kind |-> "NativeField", n |-> 0]

Boolean == [kind |-> "Boolean", n |-> 0]

Unsigned(w) == [kind |-> "Unsigned", n |-> w]

Signed(w) == [kind |-> "Signed", n |-> w]

Pointer(a) == [kind |-> "Pointer", n |-> a]

NotAnObject == [kind |-> "NotAnObject", n |-> 0]

\* ObjectType::bits
Bits(t) ==
    CASE t.kind = "Boolean" -> 1
      [] t.kind = "NativeField" -> FieldBits
      [] t.kind = "NotAnObject" -> 0
      [] t.kind = "Signed" -> t.n
      [] t.kind = "Unsigned" -> t.n
      [] t.kind = "Pointer" -> 0

(***************************************************************************)
(* Results: Ok(v), Err(RuntimeError) and a panic (abort) of the call.      *)
(***************************************************************************)
Ok(v) == [tag |-> "Ok", eval |-> v]

Err(message, location) ==
    [tag |-> "Err", kind |-> "UnstructuredError", message |-> message,
     location |-> location]

Panic(message) == [tag |-> "Panic", message |-> message]

IsOk(r) == r.tag = "Ok"

(***************************************************************************)
(* u128 arithmetic.  A value of -1 (Overflow) stands for the panic of an   *)
(* overflow check; `checks` is TRUE in a build with overflow checks (the   *)
(* debug profile) and FALSE in a build without (the release profile).      *)
(***************************************************************************)
Overflow == 0 - 1

\* <u128 as Add>::add
U128Add(a, b, checks) ==
    IF a + b > U128Max
    THEN (IF checks THEN Overflow ELSE (a + b) % U128Modulus)
    ELSE a + b

\* u128::wrapping_sub
U128WrappingSub(a, b, checks) == (a - b) % U128Modulus

\* <u128 as Mul>::mul
U128Mul(a, b, checks) ==
    IF a # 0 /\ b > U128Max \div a
    THEN (IF checks THEN Overflow ELSE MulMod(a, b, U128Modulus))
    ELSE a * b

RECURSIVE BitAnd(_, _)
BitAnd(a, b) ==
    IF a = 0 \/ b = 0 THEN 0
    ELSE (a % 2) * (b % 2) + 2 * BitAnd(a \div 2, b \div 2)

RECURSIVE BitOr(_, _)
BitOr(a, b) ==
    IF a = 0 THEN b
    ELSE IF b = 0 THEN a
    ELSE (IF a % 2 = 1 \/ b % 2 = 1 THEN 1 ELSE 0) + 2 * BitOr(a \div 2, b \div 2)

RECURSIVE BitXor(_, _)
BitXor(a, b) ==
    IF a = 0 THEN b
    ELSE IF b = 0 THEN a
    ELSE ((a + b) % 2) + 2 * BitXor(a \div 2, b \div 2)

\* <u128 as BitAnd>::bitand
U128BitAnd(a, b, checks) == BitAnd(a, b)

\* <u128 as BitOr>::bitor
U128BitOr(a, b, checks) == BitOr(a, b)

\* <u128 as BitXor>::bitxor
U128BitXor(a, b, checks) == BitXor(a, b)

\* <u128 as Shl<u128>>::shl: a shift amount of at least the word width
\* panics under overflow checks and is masked to the word width without.
U128Shl(a, b, checks) ==
    IF b >= U128Bits
    THEN (IF checks THEN Overflow
          ELSE MulMod(a, Pow2(b % U128Bits), U128Modulus))
    ELSE MulMod(a, Pow2(b), U128Modulus)

\* <u128 as Shr<u128>>::shr
U128Shr(a, b, checks) ==
    IF b >= U128Bits
    THEN (IF checks THEN Overflow ELSE a \div Pow2(b % U128Bits))
    ELSE a \div Pow2(b)

\* !x on u128
U128Not(a) == U128Max - a

\* 1_u128 << bits
OneShl(bits, checks) == U128Shl(1, bits, checks)

(***************************************************************************)
(* FieldElement: the canonical representative in 0..FieldModulus-1.        *)
(***************************************************************************)
\* FieldElement::from_be_bytes_reduce(&value.to_bytes_be())
FromBeBytesReduce(v) == v % FieldModulus

\* FieldElement::to_u128: the low 128 bits of the representative
ToU128(f) == f % U128Modulus

\* FieldElement::try_into_u128: Some iff the representative fits in 128 bits
TryIntoU128(f) == IF f <= U128Max THEN Some(f) ELSE None

\* FieldElement::from(u128)
FieldFromU128(x) == x % FieldModulus

FieldAdd(a, b) == (a + b) % FieldModulus

FieldSub(a, b) == (a - b) % FieldModulus

FieldMul(a, b) == MulMod(a, b, FieldModulus)

RECURSIVE FieldPow(_, _)
FieldPow(a, e) ==
    IF e = 0 THEN 1
    ELSE IF e % 2 = 0 THEN FieldPow(FieldMul(a, a), e \div 2)
    ELSE FieldMul(a, FieldPow(FieldMul(a, a), e \div 2))

\* lhs / rhs on field elements: lhs * rhs.inverse(), the inverse of 0 being 0
FieldDiv(a, b) == FieldMul(a, FieldPow(b, FieldModulus - 2))

(***************************************************************************)
(* Nodes and the arena.  A NodeId is the index of a slot of the arena; the *)
(* arena is a sequence of nodes.  NodeIds are ordered by their index.      *)
(***************************************************************************)
\* NodeId::dummy(): SsaContext::dummy_id(), an index no arena slot has
DummyId == 65535

\* NodeObj::Obj(Variable)
Obj(t) == [kind |-> "Obj", type |-> t, value |-> 0]

\* NodeObj::Instr(Instruction)
Instr(t) == [kind |-> "Instr", type |-> t, value |-> 0]

\* NodeObj::Const(Constant)
ConstNode(v, t) == [kind |-> "Const", type |-> t, value |-> v]

\* Node::get_type for NodeObj
GetType(node) == node.type

\* SsaContext::try_get_node
TryGetNode(ctx, id) == IF id \in DOMAIN ctx THEN Some(ctx[id]) ELSE None

\* SsaContext::get_object_type: NotAnObject when the id is absent
GetObjectType(ctx, id) ==
    IF id \in DOMAIN ctx THEN GetType(ctx[id]) ELSE NotAnObject

(***************************************************************************)
(* NodeEval                                                                *)
(***************************************************************************)
Const(v, t) == [kind |-> "Const", value |-> v, type |-> t]

VarOrInstruction(i) == [kind |-> "VarOrInstruction", id |-> i]

\* NodeEval::into_const_value
IntoConstValue(e) == IF e.kind = "Const" THEN Some(e.value) ELSE None

\* NodeEval::from_u128
FromU128(value, typ) == Const(FieldFromU128(value), typ)

\* from_id without the arm for constants
FromId_NoConstArm(ctx, id) ==
    IF id \notin DOMAIN ctx THEN Panic("no node with this id")
    ELSE Ok(VarOrInstruction(id))

\* NodeEval::from_id; indexing the context with an absent id panics
FromId(ctx, id) ==
    IF id \notin DOMAIN ctx THEN Panic("no node with this id")
    ELSE IF ctx[id].kind = "Const"
    THEN Ok(Const(FromBeBytesReduce(ctx[id].value), GetType(ctx[id])))
    ELSE Ok(VarOrInstruction(id))

\* SsaContext::get_or_create_const: the id of the first constant node with
\* this value and type, or of a new constant node added to the context; the
\* result is the id and the context after the call
GetOrCreateConst(ctx, x, t) ==
    LET found == {i \in DOMAIN ctx : /\ ctx[i].kind = "Const"
                                     /\ ctx[i].value = x
                                     /\ GetType(ctx[i]) = t}
    IN IF found # {}
       THEN [id |-> CHOOSE i \in found : \A j \in found : i <= j, nodes |-> ctx]
       ELSE [id |-> Len(ctx) + 1, nodes |-> Append(ctx, ConstNode(x, t))]

\* to_index with every constant interned as a field constant
ToIndex_IgnoresType(self, ctx) ==
    IF self.kind = "Const"
    THEN GetOrCreateConst(ctx, self.value, NativeField)
    ELSE [id |-> self.id, nodes |-> ctx]

\* NodeEval::to_index: the id and the context after the call
ToIndex(self, ctx) ==
    IF self.kind = "Const"
    THEN GetOrCreateConst(ctx, self.value, self.type)
    ELSE [id |-> self.id, nodes |-> ctx]

\* The resolver Instruction::evaluate passes to evaluate_with
DefaultResolver(ctx) == [id \in (DOMAIN ctx) \cup {DummyId} |-> FromId(ctx, id)]

\* FieldElement::is_zero / is_one on an Option<FieldElement>
OptIsZero(o) == IsSome(o) /\ Unwrap(o) = 0

OptIsOne(o) == IsSome(o) /\ Unwrap(o) = 1

(***************************************************************************)
(* ObjectType::field_to_type                                               *)
(***************************************************************************)
FieldToType(t, f, checks) ==
    CASE t.kind \in {"NotAnObject", "Pointer"} -> Panic("unreachable")
      [] t.kind = "NativeField" -> Ok(f)
      [] t.kind = "Signed" -> Panic("not yet implemented")
      [] OTHER ->
            IF ~(Bits(t) < U128Bits) THEN Panic("assertion failed: self.bits() < 128")
            ELSE Ok(FieldFromU128(ToU128(f) % OneShl(Bits(t), checks)))

(***************************************************************************)
(* wrapping                                                                *)
(***************************************************************************)
U128Op(op, a, b, checks) ==
    CASE op = "add" -> U128Add(a, b, checks)
      [] op = "wrapping_sub" -> U128WrappingSub(a, b, checks)
      [] op = "mul" -> U128Mul(a, b, checks)
      [] op = "bitand" -> U128BitAnd(a, b, checks)
      [] op = "bitor" -> U128BitOr(a, b, checks)
      [] op = "bitxor" -> U128BitXor(a, b, checks)
      [] op = "shl" -> U128Shl(a, b, checks)
      [] op = "shr" -> U128Shr(a, b, checks)

FieldOp(op, a, b) ==
    CASE op = "add" -> Ok(FieldAdd(a, b))
      [] op = "sub" -> Ok(FieldSub(a, b))
      [] op = "mul" -> Ok(FieldMul(a, b))
      [] op = "field_op_not_allowed" ->
            Panic("unreachable: operation not allowed for FieldElement")

Wrapping(lhs, rhs, res_type, u128_op, field_op, checks) ==
    IF res_type # NativeField
    THEN LET type_modulo == OneShl(Bits(res_type), checks) IN
         IF type_modulo = Overflow
         THEN Panic("attempt to shift left with overflow")
         ELSE LET l == ToU128(lhs) % type_modulo
                  r == ToU128(rhs) % type_modulo
                  x == U128Op(u128_op, l, r, checks)
              IN IF x = Overflow
                 THEN Panic("arithmetic overflow")
                 ELSE Ok(FromU128(x % type_modulo, res_type))
    ELSE LET f == FieldOp(field_op, lhs, rhs) IN
         IF IsOk(f) THEN Ok(Const(f.eval, res_type)) ELSE f

(***************************************************************************)
(* Operations.                                                             *)
(***************************************************************************)
\* BinaryOp: the operators without payload, and Sub / SafeSub with theirs
Operator(name) == [name |-> name]

SubOperator(name, max_rhs_value) == [name |-> name, max_rhs_value |-> max_rhs_value]

\* Binary
Binary(operator, lhs, rhs, predicate) ==
    [variant |-> "Binary", operator |-> operator, lhs |-> lhs, rhs |-> rhs,
     predicate |-> predicate]

Cast(value) == [variant |-> "Cast", value |-> value]

Truncate(value, bit_size, max_bit_size) ==
    [variant |-> "Truncate", value |-> value, bit_size |-> bit_size,
     max_bit_size |-> max_bit_size]

Not(value) == [variant |-> "Not", value |-> value]

Constrain(value, location) ==
    [variant |-> "Constrain", value |-> value, location |-> location]

Jne(value, block) == [variant |-> "Jne", value |-> value, block |-> block]

Jeq(value, block) == [variant |-> "Jeq", value |-> value, block |-> block]

Jmp(block) == [variant |-> "Jmp", block |-> block]

Phi(root, block_args) ==
    [variant |-> "Phi", root |-> root, block_args |-> block_args]

Cond(condition, val_true, val_false) ==
    [variant |-> "Cond", condition |-> condition, val_true |-> val_true,
     val_false |-> val_false]

Load(array_id, index) == [variant |-> "Load", array_id |-> array_id, index |-> index]

Store(array_id, index, value) ==
    [variant |-> "Store", array_id |-> array_id, index |-> index, value |-> value]

Return(values) == [variant |-> "Return", values |-> values]

Result(call_instruction, index) ==
    [variant |-> "Result", call_instruction |-> call_instruction, index |-> index]

Call(func_id, arguments, returned_arrays, predicate) ==
    [variant |-> "Call", func_id |-> func_id, arguments |-> arguments,
     returned_arrays |-> returned_arrays, predicate |-> predicate]

Intrinsic(opcode, args) == [variant |-> "Intrinsic", opcode |-> opcode, args |-> args]

Nop == [variant |-> "Nop"]

\* Instruction (the fields evaluation and canonicalisation read)
Instruction(id, operation, res_type) ==
    [id |-> id, operation |-> operation, res_type |-> res_type]

(***************************************************************************)
(* Binary::evaluate, one operator per arm of the match.  `e` holds the     *)
(* locals computed before the match: l_eval, r_eval, l_type, r_type, lhs,  *)
(* rhs (Option<FieldElement>), l_is_zero, r_is_zero.                       *)
(***************************************************************************)
BothConst(e) == IsSome(e.lhs) /\ IsSome(e.rhs)

\* The fall-through returning the dummy id
OwnId_Dummy(id) == Ok(VarOrInstruction(DummyId))

\* The fall-through of the match: Ok(NodeEval::VarOrInstruction(id))
OwnId(id) == Ok(VarOrInstruction(id))

EvalAdd(self, id, res_type, e, checks) ==
    IF e.l_is_zero THEN Ok(e.r_eval)
    ELSE IF e.r_is_zero THEN Ok(e.l_eval)
    ELSE IF e.l_type # e.r_type THEN Panic("assertion failed: l_type == r_type")
    ELSE IF BothConst(e)
    THEN Wrapping(Unwrap(e.lhs), Unwrap(e.rhs), e.l_type, "add", "add", checks)
    ELSE OwnId(id)

\* EvalSub without the test for equal operands
EvalSub_NoSameOperands(self, id, res_type, e, checks) ==
    IF e.r_is_zero THEN Ok(e.l_eval)
    ELSE IF BothConst(e)
    THEN Wrapping(Unwrap(e.lhs), Unwrap(e.rhs), res_type, "wrapping_sub", "sub", checks)
    ELSE OwnId(id)

EvalSub(self, id, res_type, e, checks) ==
    IF e.r_is_zero THEN Ok(e.l_eval)
    ELSE IF self.lhs = self.rhs THEN Ok(FromU128(0, res_type))
    ELSE IF BothConst(e)
    THEN Wrapping(Unwrap(e.lhs), Unwrap(e.rhs), res_type, "wrapping_sub", "sub", checks)
    ELSE OwnId(id)

EvalMul(self, id, res_type, e, checks) ==
    LET l_is_one == OptIsOne(e.lhs)
        r_is_one == OptIsOne(e.rhs)
    IN IF e.l_type # e.r_type THEN Panic("assertion failed: l_type == r_type")
       ELSE IF e.l_is_zero \/ r_is_one THEN Ok(e.l_eval)
       ELSE IF e.r_is_zero \/ l_is_one THEN Ok(e.r_eval)
       ELSE IF BothConst(e)
       THEN Wrapping(Unwrap(e.lhs), Unwrap(e.rhs), res_type, "mul", "mul", checks)
       ELSE OwnId(id)

EvalUdiv(self, id, res_type, e, checks) ==
    IF e.r_is_zero THEN Panic("not yet implemented: Panic - division by zero")
    ELSE IF e.l_is_zero THEN Ok(e.l_eval)
    ELSE IF BothConst(e)
    THEN LET l == FieldToType(res_type, Unwrap(e.lhs), checks)
             r == FieldToType(res_type, Unwrap(e.rhs), checks)
         IN IF ~IsOk(l) THEN l
            ELSE IF ~IsOk(r) THEN r
            ELSE IF ToU128(r.eval) = 0 THEN Panic("attempt to divide by zero")
            ELSE Ok(Const(FieldFromU128(ToU128(l.eval) \div ToU128(r.eval)), res_type))
    ELSE OwnId(id)

EvalDiv(self, id, res_type, e, checks) ==
    IF e.r_is_zero THEN Panic("not yet implemented: Panic - division by zero")
    ELSE IF e.l_is_zero THEN Ok(e.l_eval)
    ELSE IF BothConst(e)
    THEN Ok(Const(FieldDiv(Unwrap(e.lhs), Unwrap(e.rhs)), res_type))
    ELSE OwnId(id)

EvalSdiv(self, id, res_type, e, checks) ==
    IF e.r_is_zero THEN Panic("not yet implemented: Panic - division by zero")
    ELSE IF e.l_is_zero THEN Ok(e.l_eval)
    ELSE IF BothConst(e)
    THEN Panic("not yet implemented: Constant folding for division")
    ELSE OwnId(id)

EvalRem(self, id, res_type, e, checks) ==
    IF e.r_is_zero THEN Panic("not yet implemented: Panic - division by zero")
    ELSE IF e.l_is_zero THEN Ok(e.l_eval)
    ELSE IF BothConst(e)
    THEN Panic("not yet implemented: divide lhs/rhs but take sign into account")
    ELSE OwnId(id)

BoolConst(b) == Ok(Const(IF b THEN 1 ELSE 0, Boolean))

EvalUlt(self, id, res_type, e, checks) ==
    IF e.r_is_zero THEN BoolConst(FALSE)
    ELSE IF BothConst(e)
    THEN IF res_type = NativeField
         THEN Panic("assertion failed: res_type != NativeField")
         ELSE BoolConst(Unwrap(e.lhs) < Unwrap(e.rhs))
    ELSE OwnId(id)

EvalUle(self, id, res_type, e, checks) ==
    IF e.l_is_zero THEN BoolConst(TRUE)
    ELSE IF BothConst(e)
    THEN IF res_type = NativeField
         THEN Panic("assertion failed: res_type != NativeField")
         ELSE BoolConst(Unwrap(e.lhs) <= Unwrap(e.rhs))
    ELSE OwnId(id)

EvalLt(self, id, res_type, e, checks) ==
    IF e.r_is_zero THEN BoolConst(FALSE)
    ELSE IF BothConst(e) THEN BoolConst(Unwrap(e.lhs) < Unwrap(e.rhs))
    ELSE OwnId(id)

EvalLte(self, id, res_type, e, checks) ==
    IF e.l_is_zero THEN BoolConst(TRUE)
    ELSE IF BothConst(e) THEN BoolConst(Unwrap(e.lhs) <= Unwrap(e.rhs))
    ELSE OwnId(id)

EvalEq(self, id, res_type, e, checks) ==
    IF self.lhs = self.rhs THEN BoolConst(TRUE)
    ELSE IF BothConst(e) THEN BoolConst(Unwrap(e.lhs) = Unwrap(e.rhs))
    ELSE OwnId(id)

EvalNe(self, id, res_type, e, checks) ==
    IF self.lhs = self.rhs THEN BoolConst(FALSE)
    ELSE IF BothConst(e) THEN BoolConst(Unwrap(e.lhs) # Unwrap(e.rhs))
    ELSE OwnId(id)

EvalAnd(self, id, res_type, e, checks) ==
    IF e.l_is_zero \/ self.lhs = self.rhs THEN Ok(e.l_eval)
    ELSE IF e.r_is_zero THEN Ok(e.r_eval)
    ELSE IF BothConst(e)
    THEN Wrapping(Unwrap(e.lhs), Unwrap(e.rhs), res_type, "bitand",
                  "field_op_not_allowed", checks)
    ELSE OwnId(id)

\* EvalOr returning the left operand when the left operand is zero
EvalOr_LeftOnZero(self, id, res_type, e, checks) ==
    IF e.l_is_zero \/ self.lhs = self.rhs THEN Ok(e.l_eval)
    ELSE IF e.r_is_zero THEN Ok(e.l_eval)
    ELSE IF BothConst(e)
    THEN Wrapping(Unwrap(e.lhs), Unwrap(e.rhs), res_type, "bitor",
                  "field_op_not_allowed", checks)
    ELSE OwnId(id)

EvalOr(self, id, res_type, e, checks) ==
    IF e.l_is_zero \/ self.lhs = self.rhs THEN Ok(e.r_eval)
    ELSE IF e.r_is_zero THEN Ok(e.l_eval)
    ELSE IF BothConst(e)
    THEN Wrapping(Unwrap(e.lhs), Unwrap(e.rhs), res_type, "bitor",
                  "field_op_not_allowed", checks)
    ELSE OwnId(id)

EvalXor(self, id, res_type, e, checks) ==
    IF self.lhs = self.rhs THEN Ok(Const(0, res_type))
    ELSE IF e.l_is_zero THEN Ok(e.r_eval)
    ELSE IF e.r_is_zero THEN Ok(e.l_eval)
    ELSE IF BothConst(e)
    THEN Wrapping(Unwrap(e.lhs), Unwrap(e.rhs), res_type, "bitxor",
                  "field_op_not_allowed", checks)
    ELSE OwnId(id)

EvalShl(self, id, res_type, e, checks) ==
    IF e.l_is_zero THEN Ok(e.l_eval)
    ELSE IF e.r_is_zero THEN Ok(e.l_eval)
    ELSE IF BothConst(e)
    THEN Wrapping(Unwrap(e.lhs), Unwrap(e.rhs), res_type, "shl",
                  "field_op_not_allowed", checks)
    ELSE OwnId(id)

EvalShr(self, id, res_type, e, checks) ==
    IF e.l_is_zero THEN Ok(e.l_eval)
    ELSE IF e.r_is_zero THEN Ok(e.l_eval)
    ELSE IF BothConst(e)
    THEN Wrapping(Unwrap(e.lhs), Unwrap(e.rhs), res_type, "shr",
                  "field_op_not_allowed", checks)
    ELSE OwnId(id)

\* The match on self.operator
EvalOperator(self, id, res_type, e, checks) ==
    LET name == self.operator.name IN
    CASE name \in {"Add", "SafeAdd"} -> EvalAdd(self, id, res_type, e, checks)
      [] name \in {"Sub", "SafeSub"} -> EvalSub(self, id, res_type, e, checks)
      [] name \in {"Mul", "SafeMul"} -> EvalMul(self, id, res_type, e, checks)
      [] name = "Udiv" -> EvalUdiv(self, id, res_type, e, checks)
      [] name = "Div" -> EvalDiv(self, id, res_type, e, checks)
      [] name = "Sdiv" -> EvalSdiv(self, id, res_type, e, checks)
      [] name \in {"Urem", "Srem"} -> EvalRem(self, id, res_type, e, checks)
      [] name = "Ult" -> EvalUlt(self, id, res_type, e, checks)
      [] name = "Ule" -> EvalUle(self, id, res_type, e, checks)
      [] name \in {"Slt", "Sle"} -> OwnId(id)
      [] name = "Lt" -> EvalLt(self, id, res_type, e, checks)
      [] name = "Lte" -> EvalLte(self, id, res_type, e, checks)
      [] name = "Eq" -> EvalEq(self, id, res_type, e, checks)
      [] name = "Ne" -> EvalNe(self, id, res_type, e, checks)
      [] name = "And" -> EvalAnd(self, id, res_type, e, checks)
      [] name = "Or" -> EvalOr(self, id, res_type, e, checks)
      [] name = "Xor" -> EvalXor(self, id, res_type, e, checks)
      [] name = "Shl" -> EvalShl(self, id, res_type, e, checks)
      [] name = "Shr" -> EvalShr(self, id, res_type, e, checks)
      [] name = "Assign" -> OwnId(id)

\* The locals of Binary::evaluate computed from the resolved operands
Operands(self, ctx, l_eval, r_eval) ==
    [l_eval |-> l_eval, r_eval |-> r_eval,
     l_type |-> GetObjectType(ctx, self.lhs),
     r_type |-> GetObjectType(ctx, self.rhs),
     lhs |-> IntoConstValue(l_eval),
     rhs |-> IntoConstValue(r_eval),
     l_is_zero |-> OptIsZero(IntoConstValue(l_eval)),
     r_is_zero |-> OptIsZero(IntoConstValue(r_eval))]

\* Binary::evaluate resolving rhs before lhs
BinaryEvaluate_RhsFirst(self, ctx, id, res_type, eval_fn, checks) ==
    LET r_res == eval_fn[self.rhs] IN
    IF ~IsOk(r_res) THEN r_res
    ELSE LET l_res == eval_fn[self.lhs] IN
         IF ~IsOk(l_res) THEN l_res
         ELSE EvalOperator(self, id, res_type,
                           Operands(self, ctx, l_res.eval, r_res.eval), checks)

\* Binary::evaluate: lhs is resolved first, an error of the resolver is
\* returned at once
BinaryEvaluate(self, ctx, id, res_type, eval_fn, checks) ==
    LET l_res == eval_fn[self.lhs] IN
    IF ~IsOk(l_res) THEN l_res
    ELSE LET r_res == eval_fn[self.rhs] IN
         IF ~IsOk(r_res) THEN r_res
         ELSE EvalOperator(self, id, res_type,
                           Operands(self, ctx, l_res.eval, r_res.eval), checks)

(***************************************************************************)
(* Instruction::evaluate_with and Instruction::evaluate                    *)
(***************************************************************************)
\* EvalCast without the reduction modulo 2^bits
EvalCast_NoReduction(self, value, eval_fn, checks) ==
    LET r == eval_fn[value] IN
    IF ~IsOk(r) THEN r
    ELSE LET c == IntoConstValue(r.eval) IN
         IF ~IsSome(c) THEN OwnId(self.id)
         ELSE IF self.res_type = NativeField
         THEN Ok(Const(Unwrap(c), self.res_type))
         ELSE LET l_const == TryIntoU128(Unwrap(c)) IN
              IF ~IsSome(l_const) THEN OwnId(self.id)
              ELSE Ok(Const(FieldFromU128(Unwrap(l_const)), self.res_type))

EvalCast(self, value, eval_fn, checks) ==
    LET r == eval_fn[value] IN
    IF ~IsOk(r) THEN r
    ELSE LET c == IntoConstValue(r.eval) IN
         IF ~IsSome(c) THEN OwnId(self.id)
         ELSE IF self.res_type = NativeField
         THEN Ok(Const(Unwrap(c), self.res_type))
         ELSE LET l_const == TryIntoU128(Unwrap(c)) IN
              IF ~IsSome(l_const) THEN OwnId(self.id)
              ELSE LET modulo == OneShl(Bits(self.res_type), checks) IN
                   IF modulo = Overflow
                   THEN Panic("attempt to shift left with overflow")
                   ELSE Ok(Const(FieldFromU128(Unwrap(l_const) % modulo),
                                 self.res_type))

\* EvalNot without the mask of the result
EvalNot_NoMask(self, value, eval_fn, checks) ==
    LET r == eval_fn[value] IN
    IF ~IsOk(r) THEN r
    ELSE LET c == IntoConstValue(r.eval) IN
         IF ~IsSome(c) THEN OwnId(self.id)
         ELSE LET f == FieldToType(self.res_type, Unwrap(c), checks) IN
              IF ~IsOk(f) THEN f
              ELSE Ok(Const(FieldFromU128(U128Not(ToU128(f.eval))), self.res_type))

EvalNot(self, value, eval_fn, checks) ==
    LET r == eval_fn[value] IN
    IF ~IsOk(r) THEN r
    ELSE LET c == IntoConstValue(r.eval) IN
         IF ~IsSome(c) THEN OwnId(self.id)
         ELSE LET f == FieldToType(self.res_type, Unwrap(c), checks) IN
              IF ~IsOk(f) THEN f
              ELSE LET l == ToU128(f.eval)
                       shifted == OneShl(Bits(self.res_type), checks)
                   IN IF shifted = Overflow
                      THEN Panic("attempt to shift left with overflow")
                      ELSE Ok(Const(FieldFromU128(BitAnd(U128Not(l), shifted - 1)),
                                    self.res_type))

\* EvalConstrain deleting the false constraint and failing on the true one
EvalConstrain_Swapped(self, value, location, eval_fn, checks) ==
    LET r == eval_fn[value] IN
    IF ~IsOk(r) THEN r
    ELSE LET obj == IntoConstValue(r.eval) IN
         IF OptIsZero(obj) THEN Ok(VarOrInstruction(DummyId))
         ELSE IF OptIsOne(obj) THEN Err("Constraint is always false", location)
         ELSE OwnId(self.id)

EvalConstrain(self, value, location, eval_fn, checks) ==
    LET r == eval_fn[value] IN
    IF ~IsOk(r) THEN r
    ELSE LET obj == IntoConstValue(r.eval) IN
         IF OptIsOne(obj) THEN Ok(VarOrInstruction(DummyId))
         ELSE IF OptIsZero(obj) THEN Err("Constraint is always false", location)
         ELSE OwnId(self.id)

\* EvalCond choosing the other branch on a constant condition
EvalCond_Swapped(self, condition, val_true, val_false, eval_fn, checks) ==
    LET r == eval_fn[condition] IN
    IF ~IsOk(r) THEN r
    ELSE LET cond == IntoConstValue(r.eval) IN
         IF IsSome(cond)
         THEN (IF Unwrap(cond) = 0
               THEN Ok(VarOrInstruction(val_true))
               ELSE Ok(VarOrInstruction(val_false)))
         ELSE IF val_true = val_false
         THEN Ok(VarOrInstruction(val_false))
         ELSE OwnId(self.id)

EvalCond(self, condition, val_true, val_false, eval_fn, checks) ==
    LET r == eval_fn[condition] IN
    IF ~IsOk(r) THEN r
    ELSE LET cond == IntoConstValue(r.eval) IN
         IF IsSome(cond)
         THEN (IF Unwrap(cond) = 0
               THEN Ok(VarOrInstruction(val_false))
               ELSE Ok(VarOrInstruction(val_true)))
         ELSE IF val_true = val_false
         THEN Ok(VarOrInstruction(val_false))
         ELSE OwnId(self.id)

\* evaluate_with resolving the first argument of a Phi
EvaluateWith_ResolvesPhi(self, ctx, eval_fn, checks) ==
    LET op == self.operation IN
    CASE op.variant = "Binary" ->
            BinaryEvaluate(op, ctx, self.id, self.res_type, eval_fn, checks)
      [] op.variant = "Cast" -> EvalCast(self, op.value, eval_fn, checks)
      [] op.variant = "Not" -> EvalNot(self, op.value, eval_fn, checks)
      [] op.variant = "Constrain" ->
            EvalConstrain(self, op.value, op.location, eval_fn, checks)
      [] op.variant = "Cond" ->
            EvalCond(self, op.condition, op.val_true, op.val_false, eval_fn, checks)
      [] op.variant = "Phi" /\ op.block_args # <<>> -> eval_fn[op.block_args[1][1]]
      [] OTHER -> OwnId(self.id)

EvaluateWith(self, ctx, eval_fn, checks) ==
    LET op == self.operation IN
    CASE op.variant = "Binary" ->
            BinaryEvaluate(op, ctx, self.id, self.res_type, eval_fn, checks)
      [] op.variant = "Cast" -> EvalCast(self, op.value, eval_fn, checks)
      [] op.variant = "Not" -> EvalNot(self, op.value, eval_fn, checks)
      [] op.variant = "Constrain" ->
            EvalConstrain(self, op.value, op.location, eval_fn, checks)
      [] op.variant = "Cond" ->
            EvalCond(self, op.condition, op.val_true, op.val_false, eval_fn, checks)
      [] OTHER -> OwnId(self.id)

Evaluate(self, ctx, checks) == EvaluateWith(self, ctx, DefaultResolver(ctx), checks)

\* The calls of eval_fn that evaluate_with makes, in order: the node ids
\* passed to it.  The `?` after a call returns when the call fails, so no
\* call follows a failed one.
ResolverCalls(self, eval_fn) ==
    LET op == self.operation IN
    CASE op.variant = "Binary" ->
            IF ~IsOk(eval_fn[op.lhs]) THEN <<op.lhs>> ELSE <<op.lhs, op.rhs>>
      [] op.variant \in {"Cast", "Not", "Constrain"} -> <<op.value>>
      [] op.variant = "Cond" -> <<op.condition>>
      [] OTHER -> <<>>

(***************************************************************************)
(* Instruction::truncate_required                                          *)
(***************************************************************************)
\* BigUint::bits: the number of bits of the value, 0 for the value 0
RECURSIVE BigUintBits(_)
BigUintBits(v) == IF v = 0 THEN 0 ELSE 1 + BigUintBits(v \div 2)

\* size_in_bits with the width of the type for a constant too
SizeInBits_TypeWidth(node) == Bits(GetType(node))

\* Node::size_in_bits for NodeObj
SizeInBits(node) ==
    CASE node.kind = "Obj" -> Bits(GetType(node))
      [] node.kind = "Instr" -> Bits(node.type)
      [] node.kind = "Const" -> BigUintBits(node.value)

\* Binary::truncate_required
BinaryTruncateRequired(self) ==
    LET name == self.operator.name IN
    CASE name \in {"Add", "SafeAdd", "Sub", "SafeSub", "Mul", "SafeMul"} -> FALSE
      [] name \in {"Udiv", "Sdiv", "Urem", "Srem"} -> TRUE
      [] name = "Div" -> FALSE
      [] name \in {"Eq", "Ne", "Ult", "Ule", "Slt", "Sle", "Lt", "Lte"} -> TRUE
      [] name \in {"And", "Or", "Xor"} -> TRUE
      [] name = "Assign" -> FALSE
      [] name \in {"Shl", "Shr"} -> TRUE

TruncateRequired(self, ctx) ==
    LET op == self.operation IN
    CASE op.variant = "Binary" -> BinaryTruncateRequired(op)
      [] op.variant \in {"Not", "Constrain"} -> TRUE
      [] op.variant = "Cast" ->
            LET obj == TryGetNode(ctx, op.value)
                bits == IF IsSome(obj) THEN SizeInBits(Unwrap(obj)) ELSE 0
            IN Bits(self.res_type) > bits
      [] op.variant \in {"Truncate", "Phi"} -> FALSE
      [] op.variant \in {"Nop", "Jne", "Jeq", "Jmp", "Cond"} -> FALSE
      [] op.variant = "Load" -> FALSE
      [] op.variant \in {"Store", "Intrinsic"} -> TRUE
      [] op.variant = "Call" -> FALSE
      [] op.variant = "Return" -> TRUE
      [] op.variant = "Result" -> FALSE

(***************************************************************************)
(* Instruction::simplify_phi: the loop over phi_arguments from position i  *)
(* on, `same` being the candidate found so far.  An argument is the pair   *)
(* <<value, predecessor block>>.                                           *)
(***************************************************************************)
\* The loop without the skip of an argument equal to the candidate
RECURSIVE SimplifyPhiFrom_NoSameSkip(_, _, _, _)
SimplifyPhiFrom_NoSameSkip(ins_id, phi_arguments, i, same) ==
    IF i > Len(phi_arguments) THEN same
    ELSE LET op == phi_arguments[i] IN
         IF op[1] = ins_id
         THEN SimplifyPhiFrom_NoSameSkip(ins_id, phi_arguments, i + 1, same)
         ELSE IF IsSome(same)
         THEN Some(ins_id)
         ELSE SimplifyPhiFrom_NoSameSkip(ins_id, phi_arguments, i + 1, Some(op[1]))

\* The loop without the skip of a self-reference
RECURSIVE SimplifyPhiFrom_NoSelfSkip(_, _, _, _)
SimplifyPhiFrom_NoSelfSkip(ins_id, phi_arguments, i, same) ==
    IF i > Len(phi_arguments) THEN same
    ELSE LET op == phi_arguments[i] IN
         IF Some(op[1]) = same
         THEN SimplifyPhiFrom_NoSelfSkip(ins_id, phi_arguments, i + 1, same)
         ELSE IF IsSome(same)
         THEN Some(ins_id)
         ELSE SimplifyPhiFrom_NoSelfSkip(ins_id, phi_arguments, i + 1, Some(op[1]))

RECURSIVE SimplifyPhiFrom(_, _, _, _)
SimplifyPhiFrom(ins_id, phi_arguments, i, same) ==
    IF i > Len(phi_arguments) THEN same
    ELSE LET op == phi_arguments[i] IN
         IF Some(op[1]) = same \/ op[1] = ins_id
         THEN SimplifyPhiFrom(ins_id, phi_arguments, i + 1, same)
         ELSE IF IsSome(same)
         THEN Some(ins_id)
         ELSE SimplifyPhiFrom(ins_id, phi_arguments, i + 1, Some(op[1]))

SimplifyPhi(ins_id, phi_arguments) == SimplifyPhiFrom(ins_id, phi_arguments, 1, None)

(***************************************************************************)
(* BinaryOp::is_commutative and Instruction::standard_form                 *)
(***************************************************************************)
IsCommutative(operator) ==
    operator.name \in {"Add", "SafeAdd", "Mul", "SafeMul", "And", "Or", "Xor"}

\* StandardForm swapping when lhs < rhs
StandardForm_Reversed(self) ==
    IF self.operation.variant = "Binary"
    THEN LET binary == self.operation IN
         IF IsCommutative(binary.operator) /\ binary.lhs < binary.rhs
         THEN [self EXCEPT !.operation.lhs = binary.rhs, !.operation.rhs = binary.lhs]
         ELSE self
    ELSE self

StandardForm(self) ==
    IF self.operation.variant = "Binary"
    THEN LET binary == self.operation IN
         IF IsCommutative(binary.operator) /\ binary.rhs < binary.lhs
         THEN [self EXCEPT !.operation.lhs = binary.rhs, !.operation.rhs = binary.lhs]
         ELSE self
    ELSE self

(***************************************************************************)
(* Binary::new and Binary::from_ast                                        *)
(***************************************************************************)
\* BinaryOpKind, the operators of the surface language
BinaryOpKinds ==
    {"Add", "Subtract", "Multiply", "Divide", "Equal", "NotEqual", "Less",
     "LessEqual", "Greater", "GreaterEqual", "And", "Or", "Xor", "ShiftLeft",
     "ShiftRight", "Modulo"}

\* Binary::new
BinaryNew(operator, lhs, rhs) == Binary(operator, lhs, rhs, None)

\* let num_type: NumericType = op_type.into(); match num_type { .. }: the
\* conversion is unreachable!() for a type that is not numeric
ByNumericType(op_type, signed, unsigned, field) ==
    CASE op_type.kind = "Signed" -> signed
      [] op_type.kind = "Unsigned" -> unsigned
      [] op_type.kind = "NativeField" -> field
      [] OTHER ->
            Panic("unreachable: failed to convert an object type into a numeric type")

\* from_ast keeping the order of the operands of Greater
FromAst_GreaterInOrder(op_kind, op_type, lhs, rhs) ==
    CASE op_kind = "Add" -> BinaryNew(Operator("Add"), lhs, rhs)
      [] op_kind = "Subtract" -> BinaryNew(SubOperator("Sub", 0), lhs, rhs)
      [] op_kind = "Multiply" -> BinaryNew(Operator("Mul"), lhs, rhs)
      [] op_kind = "Equal" -> BinaryNew(Operator("Eq"), lhs, rhs)
      [] op_kind = "NotEqual" -> BinaryNew(Operator("Ne"), lhs, rhs)
      [] op_kind = "And" -> BinaryNew(Operator("And"), lhs, rhs)
      [] op_kind = "Or" -> BinaryNew(Operator("Or"), lhs, rhs)
      [] op_kind = "Xor" -> BinaryNew(Operator("Xor"), lhs, rhs)
      [] op_kind = "Divide" ->
            ByNumericType(op_type,
                          BinaryNew(Operator("Sdiv"), lhs, rhs),
                          BinaryNew(Operator("Udiv"), lhs, rhs),
                          BinaryNew(Operator("Div"), lhs, rhs))
      [] op_kind = "Less" ->
            ByNumericType(op_type,
                          BinaryNew(Operator("Slt"), lhs, rhs),
                          BinaryNew(Operator("Ult"), lhs, rhs),
                          BinaryNew(Operator("Lt"), lhs, rhs))
      [] op_kind = "LessEqual" ->
            ByNumericType(op_type,
                          BinaryNew(Operator("Sle"), lhs, rhs),
                          BinaryNew(Operator("Ule"), lhs, rhs),
                          BinaryNew(Operator("Lte"), lhs, rhs))
      [] op_kind = "Greater" ->
            ByNumericType(op_type,
                          BinaryNew(Operator("Slt"), lhs, rhs),
                          BinaryNew(Operator("Ult"), lhs, rhs),
                          BinaryNew(Operator("Lt"), lhs, rhs))
      [] op_kind = "GreaterEqual" ->
            ByNumericType(op_type,
                          BinaryNew(Operator("Sle"), rhs, lhs),
                          BinaryNew(Operator("Ule"), rhs, lhs),
                          BinaryNew(Operator("Lte"), rhs, lhs))
      [] op_kind = "ShiftLeft" -> BinaryNew(Operator("Shl"), lhs, rhs)
      [] op_kind = "ShiftRight" -> BinaryNew(Operator("Shr"), lhs, rhs)
      [] op_kind = "Modulo" ->
            ByNumericType(op_type,
                          BinaryNew(Operator("Srem"), lhs, rhs),
                          BinaryNew(Operator("Urem"), lhs, rhs),
                          Panic("not implemented: Modulo operation with Field elements is not supported"))

\* Binary::from_ast: the Binary built, or the panic
FromAst(op_kind, op_type, lhs, rhs) ==
    CASE op_kind = "Add" -> BinaryNew(Operator("Add"), lhs, rhs)
      [] op_kind = "Subtract" -> BinaryNew(SubOperator("Sub", 0), lhs, rhs)
      [] op_kind = "Multiply" -> BinaryNew(Operator("Mul"), lhs, rhs)
      [] op_kind = "Equal" -> BinaryNew(Operator("Eq"), lhs, rhs)
      [] op_kind = "NotEqual" -> BinaryNew(Operator("Ne"), lhs, rhs)
      [] op_kind = "And" -> BinaryNew(Operator("And"), lhs, rhs)
      [] op_kind = "Or" -> BinaryNew(Operator("Or"), lhs, rhs)
      [] op_kind = "Xor" -> BinaryNew(Operator("Xor"), lhs, rhs)
      [] op_kind = "Divide" ->
            ByNumericType(op_type,
                          BinaryNew(Operator("Sdiv"), lhs, rhs),
                          BinaryNew(Operator("Udiv"), lhs, rhs),
                          BinaryNew(Operator("Div"), lhs, rhs))
      [] op_kind = "Less" ->
            ByNumericType(op_type,
                          BinaryNew(Operator("Slt"), lhs, rhs),
                          BinaryNew(Operator("Ult"), lhs, rhs),
                          BinaryNew(Operator("Lt"), lhs, rhs))
      [] op_kind = "LessEqual" ->
            ByNumericType(op_type,
                          BinaryNew(Operator("Sle"), lhs, rhs),
                          BinaryNew(Operator("Ule"), lhs, rhs),
                          BinaryNew(Operator("Lte"), lhs, rhs))
      [] op_kind = "Greater" ->
            ByNumericType(op_type,
                          BinaryNew(Operator("Slt"), rhs, lhs),
                          BinaryNew(Operator("Ult"), rhs, lhs),
                          BinaryNew(Operator("Lt"), rhs, lhs))
      [] op_kind = "GreaterEqual" ->
            ByNumericType(op_type,
                          BinaryNew(Operator("Sle"), rhs, lhs),
                          BinaryNew(Operator("Ule"), rhs, lhs),
                          BinaryNew(Operator("Lte"), rhs, lhs))
      [] op_kind = "ShiftLeft" -> BinaryNew(Operator("Shl"), lhs, rhs)
      [] op_kind = "ShiftRight" -> BinaryNew(Operator("Shr"), lhs, rhs)
      [] op_kind = "Modulo" ->
            ByNumericType(op_type,
                          BinaryNew(Operator("Srem"), lhs, rhs),
                          BinaryNew(Operator("Urem"), lhs, rhs),
                          Panic("not implemented: Modulo operation with Field elements is not supported"))

(***************************************************************************)
(* Opcode and the projections Binary::opcode, Operation::opcode             *)
(***************************************************************************)
\* The constructors of Opcode
OpcodeNames ==
    {"Add", "SafeAdd", "Sub", "SafeSub", "Mul", "SafeMul", "Udiv", "Sdiv",
     "Urem", "Srem", "Div", "Eq", "Ne", "Ult", "Ule", "Slt", "Sle", "Lt", "Lte",
     "And", "Or", "Xor", "Shl", "Shr", "Assign", "Cond", "Constrain", "Cast",
     "Truncate", "Not", "Jne", "Jeq", "Jmp", "Phi", "Call", "Return", "Results",
     "Load", "Store", "Intrinsic", "Nop"}

\* An Opcode without payload
Opcode(name) == [name |-> name]

\* Opcode::Call(FuncId), Load(ArrayId), Store(ArrayId), Intrinsic(OPCODE)
OpcodeWith(name, payload) == [name |-> name, payload |-> payload]

\* Binary::opcode with Sub and SafeSub projected to one Opcode
BinaryOpcode_SafeSubAsSub(self) ==
    LET name == self.operator.name IN
    IF name \in {"Sub", "SafeSub"} THEN Opcode("Sub") ELSE Opcode(name)

\* Binary::opcode
BinaryOpcode(self) ==
    LET name == self.operator.name IN
    CASE name = "Add" -> Opcode("Add")
      [] name = "SafeAdd" -> Opcode("SafeAdd")
      [] name = "Sub" -> Opcode("Sub")
      [] name = "SafeSub" -> Opcode("SafeSub")
      [] name = "Mul" -> Opcode("Mul")
      [] name = "SafeMul" -> Opcode("SafeMul")
      [] name = "Udiv" -> Opcode("Udiv")
      [] name = "Sdiv" -> Opcode("Sdiv")
      [] name = "Urem" -> Opcode("Urem")
      [] name = "Srem" -> Opcode("Srem")
      [] name = "Div" -> Opcode("Div")
      [] name = "Eq" -> Opcode("Eq")
      [] name = "Ne" -> Opcode("Ne")
      [] name = "Ult" -> Opcode("Ult")
      [] name = "Ule" -> Opcode("Ule")
      [] name = "Slt" -> Opcode("Slt")
      [] name = "Sle" -> Opcode("Sle")
      [] name = "Lt" -> Opcode("Lt")
      [] name = "Lte" -> Opcode("Lte")
      [] name = "And" -> Opcode("And")
      [] name = "Or" -> Opcode("Or")
      [] name = "Xor" -> Opcode("Xor")
      [] name = "Shl" -> Opcode("Shl")
      [] name = "Shr" -> Opcode("Shr")
      [] name = "Assign" -> Opcode("Assign")

\* Operation::opcode
OperationOpcode(self) ==
    CASE self.variant = "Binary" -> BinaryOpcode(self)
      [] self.variant = "Cast" -> Opcode("Cast")
      [] self.variant = "Truncate" -> Opcode("Truncate")
      [] self.variant = "Not" -> Opcode("Not")
      [] self.variant = "Constrain" -> Opcode("Constrain")
      [] self.variant = "Jne" -> Opcode("Jne")
      [] self.variant = "Jeq" -> Opcode("Jeq")
      [] self.variant = "Jmp" -> Opcode("Jmp")
      [] self.variant = "Phi" -> Opcode("Phi")
      [] self.variant = "Cond" -> Opcode("Cond")
      [] self.variant = "Call" -> OpcodeWith("Call", self.func_id)
      [] self.variant = "Return" -> Opcode("Return")
      [] self.variant = "Result" -> Opcode("Results")
      [] self.variant = "Load" -> OpcodeWith("Load", self.array_id)
      [] self.variant = "Store" -> OpcodeWith("Store", self.array_id)
      [] self.variant = "Intrinsic" -> OpcodeWith("Intrinsic", self.opcode)
      [] self.variant = "Nop" -> Opcode("Nop")

(***************************************************************************)
(* The traversals map_id, map_id_mut and for_each_id.  The function f on   *)
(* NodeIds is a TLA+ function; the calls made to it are sequences of ids,  *)
(* in the order of the calls.                                              *)
(***************************************************************************)
\* vecmap(ids, f)
VecMap(ids, f) == [i \in DOMAIN ids |-> f[ids[i]]]

\* vecmap(block_args, |(id, block)| (f(*id), *block))
VecMapArgs(block_args, f) ==
    [i \in DOMAIN block_args |-> <<f[block_args[i][1]], block_args[i][2]>>]

\* Option::map
OptMap(o, f) == IF IsSome(o) THEN Some(f[Unwrap(o)]) ELSE None

\* The ids of an Option<NodeId>, as a sequence
OptIds(o) == IF IsSome(o) THEN <<Unwrap(o)>> ELSE <<>>

\* The ids of the arguments of a phi, in order
ArgIds(block_args) == [i \in DOMAIN block_args |-> block_args[i][1]]

\* map_id turning a Jne into a Jeq
MapId_JneAsJeq(self, f) ==
    CASE self.variant = "Binary" ->
            Binary(self.operator, f[self.lhs], f[self.rhs], OptMap(self.predicate, f))
      [] self.variant = "Cast" -> Cast(f[self.value])
      [] self.variant = "Truncate" ->
            Truncate(f[self.value], self.bit_size, self.max_bit_size)
      [] self.variant = "Not" -> Not(f[self.value])
      [] self.variant = "Constrain" -> Constrain(f[self.value], self.location)
      [] self.variant = "Jne" -> Jeq(f[self.value], self.block)
      [] self.variant = "Jeq" -> Jeq(f[self.value], self.block)
      [] self.variant = "Jmp" -> Jmp(self.block)
      [] self.variant = "Phi" -> Phi(f[self.root], VecMapArgs(self.block_args, f))
      [] self.variant = "Cond" ->
            Cond(f[self.condition], f[self.val_true], f[self.val_false])
      [] self.variant = "Load" -> Load(self.array_id, f[self.index])
      [] self.variant = "Store" -> Store(self.array_id, f[self.index], f[self.value])
      [] self.variant = "Intrinsic" -> Intrinsic(self.opcode, VecMap(self.args, f))
      [] self.variant = "Nop" -> Nop
      [] self.variant = "Call" ->
            Call(self.func_id, VecMap(self.arguments, f), self.returned_arrays,
                 self.predicate)
      [] self.variant = "Return" -> Return(VecMap(self.values, f))
      [] self.variant = "Result" -> Result(f[self.call_instruction], self.index)

\* Operation::map_id: the operation returned
MapId(self, f) ==
    CASE self.variant = "Binary" ->
            Binary(self.operator, f[self.lhs], f[self.rhs], OptMap(self.predicate, f))
      [] self.variant = "Cast" -> Cast(f[self.value])
      [] self.variant = "Truncate" ->
            Truncate(f[self.value], self.bit_size, self.max_bit_size)
      [] self.variant = "Not" -> Not(f[self.value])
      [] self.variant = "Constrain" -> Constrain(f[self.value], self.location)
      [] self.variant = "Jne" -> Jne(f[self.value], self.block)
      [] self.variant = "Jeq" -> Jeq(f[self.value], self.block)
      [] self.variant = "Jmp" -> Jmp(self.block)
      [] self.variant = "Phi" -> Phi(f[self.root], VecMapArgs(self.block_args, f))
      [] self.variant = "Cond" ->
            Cond(f[self.condition], f[self.val_true], f[self.val_false])
      [] self.variant = "Load" -> Load(self.array_id, f[self.index])
      [] self.variant = "Store" -> Store(self.array_id, f[self.index], f[self.value])
      [] self.variant = "Intrinsic" -> Intrinsic(self.opcode, VecMap(self.args, f))
      [] self.variant = "Nop" -> Nop
      [] self.variant = "Call" ->
            Call(self.func_id, VecMap(self.arguments, f), self.returned_arrays,
                 self.predicate)
      [] self.variant = "Return" -> Return(VecMap(self.values, f))
      [] self.variant = "Result" -> Result(f[self.call_instruction], self.index)

\* Operation::map_id: the ids passed to f, in the order of the calls
MapIdCalls(self) ==
    CASE self.variant = "Binary" -> <<self.lhs, self.rhs>> \o OptIds(self.predicate)
      [] self.variant \in {"Cast", "Truncate", "Not", "Constrain", "Jne", "Jeq"} ->
            <<self.value>>
      [] self.variant = "Jmp" -> <<>>
      [] self.variant = "Phi" -> <<self.root>> \o ArgIds(self.block_args)
      [] self.variant = "Cond" -> <<self.condition, self.val_true, self.val_false>>
      [] self.variant = "Load" -> <<self.index>>
      [] self.variant = "Store" -> <<self.index, self.value>>
      [] self.variant = "Intrinsic" -> self.args
      [] self.variant = "Nop" -> <<>>
      [] self.variant = "Call" -> self.arguments
      [] self.variant = "Return" -> self.values
      [] self.variant = "Result" -> <<self.call_instruction>>

\* Operation::map_id_mut: the operation after the call; the image of a
\* phi's root is computed and dropped
MapIdMut(self, f) ==
    CASE self.variant = "Binary" ->
            [self EXCEPT !.lhs = f[self.lhs], !.rhs = f[self.rhs],
                         !.predicate = OptMap(self.predicate, f)]
      [] self.variant \in {"Cast", "Truncate", "Not", "Constrain", "Jne", "Jeq"} ->
            [self EXCEPT !.value = f[self.value]]
      [] self.variant = "Jmp" -> self
      [] self.variant = "Phi" ->
            [self EXCEPT !.block_args = VecMapArgs(self.block_args, f)]
      [] self.variant = "Cond" ->
            [self EXCEPT !.condition = f[self.condition],
                         !.val_true = f[self.val_true],
                         !.val_false = f[self.val_false]]
      [] self.variant = "Load" -> [self EXCEPT !.index = f[self.index]]
      [] self.variant = "Store" ->
            [self EXCEPT !.index = f[self.index], !.value = f[self.value]]
      [] self.variant = "Intrinsic" -> [self EXCEPT !.args = VecMap(self.args, f)]
      [] self.variant = "Nop" -> self
      [] self.variant = "Call" ->
            [self EXCEPT !.arguments = VecMap(self.arguments, f)]
      [] self.variant = "Return" -> [self EXCEPT !.values = VecMap(self.values, f)]
      [] self.variant = "Result" ->
            [self EXCEPT !.call_instruction = f[self.call_instruction]]

\* Operation::for_each_id: the ids passed to the visitor, in the order of
\* the calls
ForEachId(self) ==
    CASE self.variant = "Binary" -> <<self.lhs, self.rhs>>
      [] self.variant \in {"Cast", "Truncate", "Not", "Constrain", "Jne", "Jeq"} ->
            <<self.value>>
      [] self.variant = "Jmp" -> <<>>
      [] self.variant = "Phi" -> <<self.root>> \o ArgIds(self.block_args)
      [] self.variant = "Cond" -> <<self.condition, self.val_true, self.val_false>>
      [] self.variant = "Load" -> <<self.index>>
      [] self.variant = "Store" -> <<self.index, self.value>>
      [] self.variant = "Intrinsic" -> self.args
      [] self.variant = "Nop" -> <<>>
      [] self.variant = "Call" -> self.arguments
      [] self.variant = "Return" -> self.values
      [] self.variant = "Result" -> <<self.call_instruction>>

(***************************************************************************)
(* The state: the arena of the context, the instruction at hand, what the  *)
(* last call returned and the fold results turned into node ids so far.    *)
(***************************************************************************)
VARIABLES nodes, ins, res, interned

vars == <<nodes, ins, res, interned>>

\* The nodes of the context: two variables, an instruction, constants of
\* every type (in range of their type, and some not), and the slot of the
\* instruction at hand (the last one).
Arena ==
    << Obj(Unsigned(8)), Obj(NativeField), Instr(Unsigned(8)),
       ConstNode(0, Unsigned(8)), ConstNode(1, Unsigned(8)),
       ConstNode(3, Unsigned(8)), ConstNode(5, Unsigned(8)),
       ConstNode(15, Unsigned(8)), ConstNode(100, Unsigned(8)),
       ConstNode(200, Unsigned(8)), ConstNode(255, Unsigned(8)),
       ConstNode(300, Unsigned(8)),
       ConstNode(0, NativeField), ConstNode(1, NativeField),
       ConstNode(2, NativeField), ConstNode(511, NativeField),
       ConstNode(U128Modulus, NativeField),
       ConstNode(FieldModulus - 1, NativeField),
       ConstNode(0, Boolean), ConstNode(1, Boolean),
       ConstNode(3, Unsigned(MaxWidth)),
       ConstNode(Pow2(MaxWidth - 1), Unsigned(MaxWidth)),
       ConstNode(Pow2(MaxWidth) - 1, Unsigned(MaxWidth)),
       ConstNode(1, Signed(8)), ConstNode(200, Signed(8)),
       Instr(NotAnObject) >>

\* The id of the instruction at hand
SelfId == Len(Arena)

Ids == 1..Len(Arena)

ConstIds == {i \in Ids : Arena[i].kind = "Const"}

\* A few ids of every kind: a variable, an instruction, constants 0, 1, 3,
\* the instruction at hand
FewIds == {1, 3, 4, 5, 6, SelfId}

ResTypes ==
    {Unsigned(8), Unsigned(MaxWidth), Signed(8), Boolean, NativeField}

BlockIds == {1, 2}

Locations == {1, 2}

IsFixedWidth(t) == t.kind \in {"Unsigned", "Signed", "Boolean"}

\* The constant in slot i is in the range of its type
InRange(i) ==
    /\ Arena[i].kind = "Const"
    /\ \/ Arena[i].type = NativeField /\ Arena[i].value < FieldModulus
       \/ IsFixedWidth(Arena[i].type) /\ Arena[i].value < Pow2(Bits(Arena[i].type))

ArithOperators ==
    {Operator("Add"), Operator("SafeAdd"), SubOperator("Sub", 0),
     SubOperator("SafeSub", 0), Operator("Mul"), Operator("SafeMul")}

BitOperators ==
    {Operator("Shl"), Operator("Shr"), Operator("And"), Operator("Or"),
     Operator("Xor")}

OtherOperators ==
    {Operator(n) : n \in {"Udiv", "Sdiv", "Urem", "Srem", "Div", "Eq", "Ne",
                          "Ult", "Ule", "Slt", "Sle", "Lt", "Lte", "Assign"}}

Operators == ArithOperators \cup BitOperators \cup OtherOperators

NoResult == [call |-> "none", checks |-> FALSE, value |-> None]

Init ==
    /\ nodes = Arena
    /\ ins = Instruction(DummyId, Nop, NotAnObject)
    /\ res = NoResult
    /\ interned = <<>>

\* No instruction is at hand yet and no call has been made: Instruction::new
\* gives the dummy id until the context adds the instruction.
NoInstruction == ins.id = DummyId /\ res = NoResult

\* A new instruction with the given operation and result type is added to
\* the context in its slot and becomes the instruction at hand.
Install(operation, res_type) ==
    /\ ins' = Instruction(SelfId, operation, res_type)
    /\ nodes' = [nodes EXCEPT ![SelfId] = Instr(res_type)]
    /\ res' = NoResult
    /\ UNCHANGED interned

\* A binary operation on two constants of the result type, both in range
NewTypedBinary ==
    /\ NoInstruction
    /\ \E lhs \in ConstIds, rhs \in ConstIds,
          operator \in ArithOperators \cup BitOperators :
          /\ InRange(lhs) /\ InRange(rhs)
          /\ Arena[lhs].type = Arena[rhs].type
          /\ IsFixedWidth(Arena[lhs].type)
          /\ Install(Binary(operator, lhs, rhs, None), Arena[lhs].type)

\* A binary operation whose operands are the same node
NewSameBinary ==
    /\ NoInstruction
    /\ \E x \in Ids, operator \in Operators, res_type \in ResTypes :
          Install(Binary(operator, x, x, None), res_type)

NewCast ==
    /\ NoInstruction
    /\ \E value \in Ids, res_type \in ResTypes : Install(Cast(value), res_type)

NewNot ==
    /\ NoInstruction
    /\ \E value \in Ids, res_type \in ResTypes : Install(Not(value), res_type)

NewConstrain ==
    /\ NoInstruction
    /\ \E value \in Ids, location \in Locations :
          Install(Constrain(value, location), NotAnObject)

NewCond ==
    /\ NoInstruction
    /\ \E condition \in Ids, val_true \in FewIds, val_false \in FewIds,
          res_type \in {Unsigned(8), NativeField} :
          Install(Cond(condition, val_true, val_false), res_type)

\* Argument lists of at most MaxArgs arguments
RECURSIVE SeqsUpTo(_, _)
SeqsUpTo(S, n) ==
    IF n = 0 THEN {<<>>}
    ELSE LET shorter == SeqsUpTo(S, n - 1) IN
         shorter \cup {Append(q, x) : q \in {r \in shorter : Len(r) = n - 1}, x \in S}

PhiIds == {1, 3, 4, SelfId}

NewPhi ==
    /\ NoInstruction
    /\ \E root \in {1}, block_args \in SeqsUpTo(PhiIds \X BlockIds, MaxArgs) :
          Install(Phi(root, block_args), Unsigned(8))

\* Any other operation
NewOther ==
    /\ NoInstruction
    /\ \E value \in FewIds, block \in BlockIds :
          \E operation \in {Truncate(value, 8, 9), Jne(value, block),
                            Jeq(value, block), Jmp(block), Load(block, value),
                            Store(block, value, value), Return(<<value>>),
                            Result(value, 0), Nop} :
              Install(operation, Unsigned(8))

\* A binary operation on any two of a few nodes or the dummy id
NewBinary ==
    /\ NoInstruction
    /\ \E lhs \in FewIds \cup {DummyId}, rhs \in FewIds \cup {DummyId},
          operator \in Operators, predicate \in {None, Some(1)} :
          Install(Binary(operator, lhs, rhs, predicate), Unsigned(8))

DivisionOperators ==
    {Operator(n) : n \in {"Udiv", "Sdiv", "Urem", "Srem", "Div"}}

ComparisonOperators ==
    {Operator(n) : n \in {"Eq", "Ne", "Ult", "Ule", "Slt", "Sle", "Lt", "Lte"}}

\* A division or remainder of two constants of the result type, both in range
NewDivision ==
    /\ NoInstruction
    /\ \E lhs \in ConstIds, rhs \in ConstIds, operator \in DivisionOperators :
          /\ InRange(lhs) /\ InRange(rhs)
          /\ Arena[lhs].type = Arena[rhs].type
          /\ Install(Binary(operator, lhs, rhs, None), Arena[lhs].type)

\* A comparison, of type Boolean, of two constants of one type, both in range
NewComparison ==
    /\ NoInstruction
    /\ \E lhs \in ConstIds, rhs \in ConstIds, operator \in ComparisonOperators :
          /\ InRange(lhs) /\ InRange(rhs)
          /\ Arena[lhs].type = Arena[rhs].type
          /\ Install(Binary(operator, lhs, rhs, None), Boolean)

\* The nodes that are not constants: the variables and the instructions
VarIds == {i \in Ids : Arena[i].kind # "Const"}

\* A binary operation on a node that is not a constant and either a
\* constant 0 or 1 of any type, on either side, or the node itself
NewIdentity ==
    /\ NoInstruction
    /\ \E x \in VarIds, operator \in Operators, res_type \in ResTypes,
          c \in {i \in ConstIds : Arena[i].value \in {0, 1}} :
          \E operands \in {<<c, x>>, <<x, c>>, <<x, x>>} :
              Install(Binary(operator, operands[1], operands[2], None), res_type)

\* The next instruction of a pass that interns its results: Add or Sub of
\* the constants 1 and 3, of type Unsigned(8) or NativeField
NewFold ==
    /\ NoInstruction \/ res.call = "to_index"
    /\ Len(interned) < MaxFolds
    /\ \E lhs \in {5, 6}, rhs \in {5, 6},
          operator \in {Operator("Add"), SubOperator("Sub", 0)},
          res_type \in {Unsigned(8), NativeField} :
          Install(Binary(operator, lhs, rhs, None), res_type)

\* The result of evaluate is turned into a node id: eval.to_index(ctx)
ToIndexStep ==
    /\ res.call = "evaluate"
    /\ IsOk(res.value)
    /\ Len(interned) < MaxFolds
    /\ LET r == ToIndex(res.value.eval, nodes) IN
          /\ nodes' = r.nodes
          /\ res' = [call |-> "to_index", checks |-> res.checks,
                     value |-> Some(r.id), of |-> res.value.eval]
          /\ interned' = Append(interned, [eval |-> res.value.eval, id |-> r.id])
    /\ UNCHANGED ins

\* The node ids the operations of the traversals are built from
OpIds == {1, 3}

\* The functions on these node ids
IdMaps == [OpIds -> OpIds]

\* Sequences of ids: arguments, returned values
IdSeqs == SeqsUpTo(OpIds, MaxArgs)

\* Operations of every variant and every operator
Operations ==
    {Binary(operator, lhs, rhs, predicate) :
        operator \in Operators \cup {SubOperator("Sub", 7), SubOperator("SafeSub", 7)},
        lhs \in OpIds, rhs \in OpIds,
        predicate \in {None} \cup {Some(i) : i \in OpIds}}
    \cup {Cast(value) : value \in OpIds}
    \cup {Truncate(value, 8, max_bit_size) : value \in OpIds, max_bit_size \in {9, 16}}
    \cup {Not(value) : value \in OpIds}
    \cup {Constrain(value, location) : value \in OpIds, location \in Locations}
    \cup {Jne(value, block) : value \in OpIds, block \in BlockIds}
    \cup {Jeq(value, block) : value \in OpIds, block \in BlockIds}
    \cup {Jmp(block) : block \in BlockIds}
    \cup {Phi(root, block_args) :
             root \in OpIds, block_args \in SeqsUpTo(OpIds \X BlockIds, MaxArgs)}
    \cup {Cond(condition, val_true, val_false) :
             condition \in OpIds, val_true \in OpIds, val_false \in OpIds}
    \cup {Load(array_id, index) : array_id \in {1, 2}, index \in OpIds}
    \cup {Store(array_id, index, value) :
             array_id \in {1, 2}, index \in OpIds, value \in OpIds}
    \cup {Call(func_id, arguments, returned_arrays, predicate) :
             func_id \in {1, 2}, arguments \in IdSeqs,
             returned_arrays \in {<<>>, << <<1, 4>> >>}, predicate \in {1, 2}}
    \cup {Return(values) : values \in IdSeqs}
    \cup {Result(call_instruction, index) : call_instruction \in OpIds, index \in {0, 1}}
    \cup {Intrinsic(opcode, args) : opcode \in {"SHA256", "ToBits"}, args \in IdSeqs}
    \cup {Nop}

\* An instruction with any of these operations
NewOperation ==
    /\ NoInstruction
    /\ \E operation \in Operations : Install(operation, Unsigned(8))

\* A cast of a node id that no node of the context has
NewDanglingCast ==
    /\ NoInstruction
    /\ \E res_type \in ResTypes \cup {NotAnObject} :
          Install(Cast(DummyId), res_type)

\* self.truncate_required(ctx)
TruncateRequiredStep ==
    /\ ins.id = SelfId
    /\ res = NoResult
    /\ res' = [call |-> "truncate_required", checks |-> FALSE,
               value |-> Some(TruncateRequired(ins, nodes))]
    /\ UNCHANGED <<nodes, ins, interned>>

\* self.operation.opcode()
OpcodeStep ==
    /\ ins.id = SelfId
    /\ res = NoResult
    /\ res' = [call |-> "opcode", checks |-> FALSE,
               value |-> Some(OperationOpcode(ins.operation))]
    /\ UNCHANGED <<nodes, ins, interned>>

\* self.operation.map_id(f), f a function on the ids of the operation
MapIdStep ==
    /\ ins.id = SelfId
    /\ ins.operation \in Operations
    /\ res = NoResult
    /\ \E f \in IdMaps :
          res' = [call |-> "map_id", checks |-> FALSE,
                  value |-> Some(MapId(ins.operation, f)), f |-> f]
    /\ UNCHANGED <<nodes, ins, interned>>

\* self.operation.map_id_mut(f); res.value holds the operation as it was
\* before the call
MapIdMutStep ==
    /\ ins.id = SelfId
    /\ ins.operation \in Operations
    /\ res = NoResult
    /\ \E f \in IdMaps :
          /\ ins' = [ins EXCEPT !.operation = MapIdMut(ins.operation, f)]
          /\ res' = [call |-> "map_id_mut", checks |-> FALSE,
                     value |-> Some(ins.operation), f |-> f]
    /\ UNCHANGED <<nodes, interned>>

\* self.operation.for_each_id(visitor)
ForEachIdStep ==
    /\ ins.id = SelfId
    /\ res = NoResult
    /\ res' = [call |-> "for_each_id", checks |-> FALSE,
               value |-> Some(ForEachId(ins.operation))]
    /\ UNCHANGED <<nodes, ins, interned>>

\* The types from_ast is called with
AstTypes == ResTypes \cup {Pointer(1)}

\* Binary::from_ast(op_kind, op_type, lhs, rhs), before any instruction is
\* made of the result
FromAstStep ==
    /\ NoInstruction
    /\ \E op_kind \in BinaryOpKinds, op_type \in AstTypes, lhs \in OpIds, rhs \in OpIds :
          res' = [call |-> "from_ast", checks |-> FALSE,
                  value |-> Some(FromAst(op_kind, op_type, lhs, rhs)),
                  args |-> [op_kind |-> op_kind, op_type |-> op_type,
                            lhs |-> lhs, rhs |-> rhs]]
    /\ UNCHANGED <<nodes, ins, interned>>

\* self.evaluate(ctx), in a build with overflow checks or without
EvaluateStep ==
    /\ ins.id = SelfId
    /\ res = NoResult
    /\ \E checks \in BOOLEAN :
          res' = [call |-> "evaluate", checks |-> checks,
                  value |-> Evaluate(ins, nodes, checks),
                  resolved |-> ResolverCalls(ins, DefaultResolver(nodes))]
    /\ UNCHANGED <<nodes, ins, interned>>

\* The ids a resolver of the caller may fail on: a variable and a constant
FailIds == {1, 4}

\* A resolver that returns an error, its own for each id, for the ids in
\* `failing` and resolves the others as the default resolver does
FailingResolver(ctx, failing) ==
    [id \in (DOMAIN ctx) \cup {DummyId} |->
        IF id \in failing THEN Err("cannot resolve", id) ELSE FromId(ctx, id)]

\* self.evaluate_with(ctx, eval_fn) with such a resolver
EvaluateWithStep ==
    /\ ins.id = SelfId
    /\ res = NoResult
    /\ \E checks \in BOOLEAN, failing \in SUBSET FailIds :
          LET eval_fn == FailingResolver(nodes, failing) IN
          res' = [call |-> "evaluate_with", checks |-> checks,
                  value |-> EvaluateWith(ins, nodes, eval_fn, checks),
                  resolved |-> ResolverCalls(ins, eval_fn),
                  failing |-> failing]
    /\ UNCHANGED <<nodes, ins, interned>>

\* Instruction::simplify_phi(self.id, block_args)
SimplifyPhiStep ==
    /\ ins.operation.variant = "Phi"
    /\ res = NoResult
    /\ res' = [call |-> "simplify_phi", checks |-> FALSE,
               value |-> SimplifyPhi(ins.id, ins.operation.block_args)]
    /\ UNCHANGED <<nodes, ins, interned>>

\* self.standard_form(), and once more if the call changed the instruction;
\* res.value holds the instruction as it was before the call
StandardFormStep ==
    /\ ins.id = SelfId
    /\ \/ res.call = "none"
       \/ res.call = "standard_form" /\ res.value # Some(ins)
    /\ ins' = StandardForm(ins)
    /\ res' = [call |-> "standard_form", checks |-> FALSE, value |-> Some(ins)]
    /\ UNCHANGED <<nodes, interned>>

Next ==
    \/ NewTypedBinary
    \/ NewSameBinary
    \/ NewCast
    \/ NewNot
    \/ NewConstrain
    \/ NewCond
    \/ NewPhi
    \/ NewOther
    \/ NewBinary
    \/ NewDivision
    \/ NewComparison
    \/ NewFold
    \/ NewIdentity
    \/ NewDanglingCast
    \/ NewOperation
    \/ TruncateRequiredStep
    \/ FromAstStep
    \/ OpcodeStep
    \/ MapIdStep
    \/ MapIdMutStep
    \/ ForEachIdStep
    \/ EvaluateStep
    \/ EvaluateWithStep
    \/ ToIndexStep
    \/ SimplifyPhiStep
    \/ StandardFormStep

Spec == Init /\ [][Next]_vars

\* Folding of binary operations on in-range constants of the result type
NextTyped == NewTypedBinary \/ EvaluateStep

SpecTyped == Init /\ [][NextTyped]_vars

\* Folding of binary operations whose operands are one node
NextSame == NewSameBinary \/ EvaluateStep

SpecSame == Init /\ [][NextSame]_vars

\* Folding of Cast, Not, Constrain and Cond
NextUnary == NewCast \/ NewNot \/ NewConstrain \/ NewCond \/ EvaluateStep

SpecUnary == Init /\ [][NextUnary]_vars

\* Trivial-phi detection
NextPhi == NewPhi \/ SimplifyPhiStep

SpecPhi == Init /\ [][NextPhi]_vars

\* The canonical form of commutative operations
NextForm == NewBinary \/ NewOther \/ NewCast \/ StandardFormStep

SpecForm == Init /\ [][NextForm]_vars

\* Folding of divisions and remainders of in-range constants
NextDiv == NewDivision \/ EvaluateStep

SpecDiv == Init /\ [][NextDiv]_vars

\* Folding of comparisons of in-range constants
NextCmp == NewComparison \/ EvaluateStep

SpecCmp == Init /\ [][NextCmp]_vars

\* A pass that folds instructions and interns the results
NextIntern == NewFold \/ EvaluateStep \/ ToIndexStep

SpecIntern == Init /\ [][NextIntern]_vars

\* The projection to opcodes and the traversals of the embedded node ids
NextOps == NewOperation \/ OpcodeStep \/ MapIdStep \/ MapIdMutStep \/ ForEachIdStep

SpecOps == Init /\ [][NextOps]_vars

\* The construction of binary operations from the surface operators
NextAst == FromAstStep

SpecAst == Init /\ [][NextAst]_vars

\* Folding of binary operations with one operand that is not a constant
NextIdent == NewIdentity \/ EvaluateStep

SpecIdent == Init /\ [][NextIdent]_vars

\* The test for a truncation on operations of every variant and on casts
\* of every node
NextTrunc == NewOperation \/ NewCast \/ NewDanglingCast \/ TruncateRequiredStep

SpecTrunc == Init /\ [][NextTrunc]_vars

\* Evaluation of phis, of operations of every variant and every operator
NextKept == NewPhi \/ NewOperation \/ EvaluateStep

SpecKept == Init /\ [][NextKept]_vars

\* Folding of every operation that folds, on operands of every type
NextRange ==
    \/ NewTypedBinary \/ NewSameBinary \/ NewDivision \/ NewComparison
    \/ NewIdentity \/ NewCast \/ NewNot \/ EvaluateStep

SpecRange == Init /\ [][NextRange]_vars

\* Evaluation of operations of every variant on nodes of every kind
NextRefs ==
    \/ NewBinary \/ NewIdentity \/ NewCast \/ NewNot \/ NewConstrain \/ NewCond
    \/ NewPhi \/ NewOther \/ EvaluateStep

SpecRefs == Init /\ [][NextRefs]_vars

\* Evaluation with a resolver that may fail
NextErr ==
    \/ NewBinary \/ NewCast \/ NewNot \/ NewConstrain \/ NewCond \/ NewPhi
    \/ EvaluateWithStep

SpecErr == Init /\ [][NextErr]_vars

(***************************************************************************)
(* Properties.                                                             *)
(***************************************************************************)
Evaluated == res.call = "evaluate"

\* The instruction at hand is a Binary with an operator of the given names
IsBinaryOf(names) ==
    /\ ins.operation.variant = "Binary"
    /\ ins.operation.operator.name \in names

\* The node id resolves to a constant with the default resolver
IsConstId(id) == id \in DOMAIN nodes /\ nodes[id].kind = "Const"

\* The field value the constant node id resolves to
ConstValue(id) == nodes[id].value % FieldModulus

\* Both operands of the Binary at hand resolve to constants
BothOperandsConst ==
    IsConstId(ins.operation.lhs) /\ IsConstId(ins.operation.rhs)

\* 2^w for the width w of a type
TypeModulus(t) == Pow2(Bits(t))

\* (a op b) mod m for the arithmetic operators, on the naturals
ArithMod(name, a, b, m) ==
    CASE name \in {"Add", "SafeAdd"} -> ((a % m) + (b % m)) % m
      [] name \in {"Sub", "SafeSub"} -> ((a % m) - (b % m)) % m
      [] name \in {"Mul", "SafeMul"} -> MulMod(a % m, b % m, m)

\* C1: for every fixed-width non-field type T of width w and all constants
\* a and b, evaluate on Add, Sub, Mul (SafeAdd, SafeSub, SafeMul) of the
\* constants a and b returns Ok(Const((a op b) mod 2^w, T)): never an error,
\* never an abort on overflow of the intermediate computation.
C1_WrappingArithmetic ==
    (/\ Evaluated
     /\ IsBinaryOf({"Add", "SafeAdd", "Sub", "SafeSub", "Mul", "SafeMul"})
     /\ BothOperandsConst
     /\ IsFixedWidth(ins.res_type))
    => res.value =
          Ok(Const(ArithMod(ins.operation.operator.name,
                            ConstValue(ins.operation.lhs),
                            ConstValue(ins.operation.rhs),
                            TypeModulus(ins.res_type)),
                   ins.res_type))

\* The operator applied to a and b (both below m = 2^w), reduced mod m; the
\* shifts are the mathematical ones: a shift by w or more leaves nothing
\* below 2^w.
BitsMod(name, a, b, m, w) ==
    CASE name = "Shl" -> IF b >= w THEN 0 ELSE MulMod(a, Pow2(b), m)
      [] name = "Shr" -> IF b >= w THEN 0 ELSE (a \div Pow2(b)) % m
      [] name = "And" -> BitAnd(a, b) % m
      [] name = "Or" -> BitOr(a, b) % m
      [] name = "Xor" -> BitXor(a, b) % m

\* C2: for every fixed-width non-field type T of width w and all constants
\* a and b, evaluate on Shl, Shr, And, Or, Xor of the constants a and b
\* returns Const(r, T), r being the operator applied to (a mod 2^w,
\* b mod 2^w) reduced mod 2^w; a shift by at least the word width yields
\* the mathematically shifted value and does not fail.
C2_WrappingBitwise ==
    (/\ Evaluated
     /\ IsBinaryOf({"Shl", "Shr", "And", "Or", "Xor"})
     /\ BothOperandsConst
     /\ IsFixedWidth(ins.res_type))
    => res.value =
          Ok(Const(BitsMod(ins.operation.operator.name,
                           ConstValue(ins.operation.lhs) % TypeModulus(ins.res_type),
                           ConstValue(ins.operation.rhs) % TypeModulus(ins.res_type),
                           TypeModulus(ins.res_type), Bits(ins.res_type)),
                   ins.res_type))

\* The Binary at hand has one node as both operands
SameOperands ==
    /\ ins.operation.variant = "Binary"
    /\ ins.operation.lhs = ins.operation.rhs

\* C3 as claimed: for every node id x and every result type T, evaluate on
\* a Binary whose lhs and rhs are both x returns Const(0, T) for Xor and
\* for Sub, Const(1, Boolean) for Eq and Const(0, Boolean) for Ne.
C3_SameOperandOriginal ==
    (Evaluated /\ SameOperands)
    => /\ IsBinaryOf({"Xor", "Sub", "SafeSub"}) => res.value = Ok(Const(0, ins.res_type))
       /\ IsBinaryOf({"Eq"}) => res.value = Ok(Const(1, Boolean))
       /\ IsBinaryOf({"Ne"}) => res.value = Ok(Const(0, Boolean))

\* C3 as amended: as claimed, except that Sub (SafeSub) of x and x, when x
\* resolves to the constant 0, returns that constant with the type of x,
\* Const(0, type of x), which need not be T.
C3_SameOperand ==
    (Evaluated /\ SameOperands)
    => LET x == ins.operation.lhs
           is_zero == IsConstId(x) /\ ConstValue(x) = 0
       IN /\ IsBinaryOf({"Xor"}) => res.value = Ok(Const(0, ins.res_type))
          /\ (IsBinaryOf({"Sub", "SafeSub"}) /\ ~is_zero)
                => res.value = Ok(Const(0, ins.res_type))
          /\ (IsBinaryOf({"Sub", "SafeSub"}) /\ is_zero)
                => res.value = Ok(Const(0, nodes[x].type))
          /\ IsBinaryOf({"Eq"}) => res.value = Ok(Const(1, Boolean))
          /\ IsBinaryOf({"Ne"}) => res.value = Ok(Const(0, Boolean))

\* Sub of the NativeField constant 0 and itself in an instruction of type
\* Unsigned(8) has folded to the field constant 0
C3_Witness ==
    /\ Evaluated /\ SameOperands /\ IsBinaryOf({"Sub"})
    /\ IsConstId(ins.operation.lhs)
    /\ nodes[ins.operation.lhs] = ConstNode(0, NativeField)
    /\ ins.res_type = Unsigned(8)
    /\ res.value = Ok(Const(0, NativeField))

\* The operation at hand is of the variant and its operand `value` resolves
\* to a constant
UnaryOnConst(variant) ==
    /\ ins.operation.variant = variant
    /\ IsConstId(ins.operation.value)

\* C4 as claimed: for every constant c, evaluate on Cast(c) returns
\* Const(c, NativeField) when the result type is NativeField and
\* Const(c mod 2^w, T) when the result type T is fixed-width, w < 128.
C4_CastOriginal ==
    (Evaluated /\ UnaryOnConst("Cast"))
    => LET c == ConstValue(ins.operation.value) IN
       /\ ins.res_type = NativeField => res.value = Ok(Const(c, NativeField))
       /\ (IsFixedWidth(ins.res_type) /\ Bits(ins.res_type) < U128Bits)
             => res.value = Ok(Const(c % TypeModulus(ins.res_type), ins.res_type))

\* C4 as amended: for every constant c, evaluate on Cast(c) returns
\* Const(c, NativeField) when the result type is NativeField; when the
\* result type T is fixed-width, w < 128, it returns Const(c mod 2^w, T) if
\* c fits in 128 bits and the instruction's own id, unfolded, if not.
C4_Cast ==
    (Evaluated /\ UnaryOnConst("Cast"))
    => LET c == ConstValue(ins.operation.value) IN
       /\ ins.res_type = NativeField => res.value = Ok(Const(c, NativeField))
       /\ (IsFixedWidth(ins.res_type) /\ Bits(ins.res_type) < U128Bits /\ c < U128Modulus)
             => res.value = Ok(Const(c % TypeModulus(ins.res_type), ins.res_type))
       /\ (IsFixedWidth(ins.res_type) /\ Bits(ins.res_type) < U128Bits /\ c >= U128Modulus)
             => res.value = Ok(VarOrInstruction(ins.id))

\* The cast of the field constant 511 to 8 bits unsigned has given 255
C4_Witness ==
    /\ Evaluated /\ UnaryOnConst("Cast")
    /\ nodes[ins.operation.value] = ConstNode(511, NativeField)
    /\ ins.res_type = Unsigned(8)
    /\ res.value = Ok(Const(255, Unsigned(8)))

\* The resolver that resolves every id to the constant v of type t
ConstResolver(v, t) == [id \in (DOMAIN nodes) \cup {DummyId} |-> Ok(Const(v, t))]

\* C5: for every constant c and every unsigned result type of width w,
\* evaluate on Not(c) returns Const((~(c mod 2^w)) & (2^w - 1), Unsigned(w)),
\* that is 2^w - 1 - (c mod 2^w); the result lies in 0..2^w - 1, and Not of
\* the result is c mod 2^w again.
C5_Not ==
    (Evaluated /\ UnaryOnConst("Not") /\ ins.res_type.kind = "Unsigned")
    => LET m == TypeModulus(ins.res_type)
           c == ConstValue(ins.operation.value)
           r == m - 1 - (c % m)
       IN /\ res.value = Ok(Const(r, ins.res_type))
          /\ r \in 0..(m - 1)
          /\ EvaluateWith(ins, nodes, ConstResolver(r, ins.res_type), res.checks)
                = Ok(Const(c % m, ins.res_type))

\* Not of 0x0F at 8 bits has given 0xF0
C5_Witness ==
    /\ Evaluated /\ UnaryOnConst("Not")
    /\ nodes[ins.operation.value] = ConstNode(15, Unsigned(8))
    /\ ins.res_type = Unsigned(8)
    /\ res.value = Ok(Const(240, Unsigned(8)))

\* C6: evaluate on Constrain(value, loc), value resolving to a constant,
\* returns Ok(VarOrInstruction(dummy id)) when the constant is 1 and
\* Err(UnstructuredError "Constraint is always false") with the location
\* loc when it is 0; the context and the instruction are not modified.
C6_Constrain ==
    [][(/\ res.call = "none" /\ res'.call = "evaluate"
        /\ UnaryOnConst("Constrain"))
       => /\ ConstValue(ins.operation.value) = 1
               => res'.value = Ok(VarOrInstruction(DummyId))
          /\ ConstValue(ins.operation.value) = 0
               => res'.value = [tag |-> "Err", kind |-> "UnstructuredError",
                                message |-> "Constraint is always false",
                                location |-> ins.operation.location]
          /\ ConstValue(ins.operation.value) \in {0, 1}
               => nodes' = nodes /\ ins' = ins]_vars

\* A Constrain of the constant 0 at location 2 has returned the error with
\* location 2
C6_Witness ==
    /\ Evaluated /\ UnaryOnConst("Constrain")
    /\ ConstValue(ins.operation.value) = 0
    /\ ins.operation.location = 2
    /\ res.value.tag = "Err" /\ res.value.location = 2

\* C7: evaluate on Cond{condition, val_true, val_false} returns
\* VarOrInstruction(val_false) when the condition resolves to the constant
\* 0, VarOrInstruction(val_true) when it resolves to a non-zero constant,
\* VarOrInstruction(val_false) when the condition is not constant and
\* val_true = val_false, and the instruction's own id otherwise.
C7_Cond ==
    (Evaluated /\ ins.operation.variant = "Cond")
    => LET op == ins.operation
           is_const == IsConstId(op.condition)
       IN /\ (is_const /\ ConstValue(op.condition) = 0)
                => res.value = Ok(VarOrInstruction(op.val_false))
          /\ (is_const /\ ConstValue(op.condition) # 0)
                => res.value = Ok(VarOrInstruction(op.val_true))
          /\ (~is_const /\ op.val_true = op.val_false)
                => res.value = Ok(VarOrInstruction(op.val_false))
          /\ (~is_const /\ op.val_true # op.val_false)
                => res.value = Ok(VarOrInstruction(ins.id))

\* A Cond on the constant 0 with two different branches has returned
\* val_false
C7_Witness ==
    /\ Evaluated /\ ins.operation.variant = "Cond"
    /\ IsConstId(ins.operation.condition)
    /\ ConstValue(ins.operation.condition) = 0
    /\ ins.operation.val_true # ins.operation.val_false
    /\ res.value = Ok(VarOrInstruction(ins.operation.val_false))

\* simplify_phi has returned for the phi at hand
Simplified == res.call = "simplify_phi" /\ ins.operation.variant = "Phi"

\* The argument values of the phi at hand that are not the phi itself
NonSelfValues ==
    {ins.operation.block_args[i][1] : i \in DOMAIN ins.operation.block_args}
        \ {ins.id}

\* C8: simplify_phi(p, args) returns Some(v) with v # p iff the set of
\* argument values different from p is exactly {v}, and Some(p) iff at
\* least two distinct values different from p occur in args, whatever the
\* order, the multiplicity and the predecessor blocks of the arguments.
C8_SimplifyPhi ==
    Simplified
    => /\ \A v \in PhiIds \ {ins.id} :
             res.value = Some(v) <=> NonSelfValues = {v}
       /\ res.value = Some(ins.id) <=> Cardinality(NonSelfValues) >= 2

\* simplify_phi on the arguments (v, B1), (v, B2), (p, B1) has returned
\* Some(v)
C8_Witness ==
    /\ Simplified
    /\ ins.operation.block_args = << <<3, 1>>, <<3, 2>>, <<ins.id, 1>> >>
    /\ res.value = Some(3)

\* C9: simplify_phi(p, args) returns None iff args is empty or every
\* argument value is p itself.
C9_SimplifyPhiNone ==
    Simplified
    => (res.value = None
          <=> \A i \in DOMAIN ins.operation.block_args :
                 ins.operation.block_args[i][1] = ins.id)

\* simplify_phi on two self-references has returned None
C9_Witness ==
    /\ Simplified
    /\ ins.operation.block_args = << <<ins.id, 1>>, <<ins.id, 2>> >>
    /\ res.value = None

\* C10: after standard_form, a Binary with a commutative operator (Add,
\* SafeAdd, Mul, SafeMul, And, Or, Xor) has lhs <= rhs and the same
\* unordered pair of operands as before, nothing else of the instruction
\* changes, a second standard_form changes nothing, and a Binary with
\* another operator and every other operation are left unchanged.
C10_StandardForm ==
    [][(res'.call = "standard_form")
       => /\ IsBinaryOf({"Add", "SafeAdd", "Mul", "SafeMul", "And", "Or", "Xor"})
               => /\ ins'.operation.lhs <= ins'.operation.rhs
                  /\ {ins'.operation.lhs, ins'.operation.rhs}
                        = {ins.operation.lhs, ins.operation.rhs}
                  /\ [ins' EXCEPT !.operation.lhs = 0, !.operation.rhs = 0]
                        = [ins EXCEPT !.operation.lhs = 0, !.operation.rhs = 0]
          /\ ~IsBinaryOf({"Add", "SafeAdd", "Mul", "SafeMul", "And", "Or", "Xor"})
               => ins' = ins
          /\ res.call = "standard_form" => ins' = ins
          /\ StandardForm(ins') = ins']_vars

\* standard_form has swapped the operands of Add(3, 1)
C10_Witness ==
    /\ res.call = "standard_form"
    /\ IsBinaryOf({"Add"})
    /\ res.value = Some([ins EXCEPT !.operation.lhs = 3, !.operation.rhs = 1])
    /\ ins.operation.lhs = 1 /\ ins.operation.rhs = 3

\* C11: folding a Udiv, Sdiv, Urem, Srem or Div whose right operand resolves
\* to the constant 0 returns an Err value of evaluate, not a panic, also
\* when the left operand is the constant 0.
C11_DivisionByZero ==
    (/\ Evaluated
     /\ IsBinaryOf({"Udiv", "Sdiv", "Urem", "Srem", "Div"})
     /\ IsConstId(ins.operation.rhs)
     /\ ConstValue(ins.operation.rhs) = 0)
    => res.value.tag = "Err"

\* The value of a as a two's complement integer of width w
AsSigned(a, w) == IF a >= Pow2(w - 1) THEN a - Pow2(w) ELSE a

\* The comparison of a and b, both of the type t and reduced to its width
\* when it is fixed-width: signed for Slt and Sle, on the naturals otherwise
Compare(name, a, b, t) ==
    LET x == IF IsFixedWidth(t) THEN a % TypeModulus(t) ELSE a
        y == IF IsFixedWidth(t) THEN b % TypeModulus(t) ELSE b
    IN CASE name = "Eq" -> x = y
         [] name = "Ne" -> x # y
         [] name \in {"Ult", "Lt"} -> x < y
         [] name \in {"Ule", "Lte"} -> x <= y
         [] name = "Slt" -> AsSigned(x, Bits(t)) < AsSigned(y, Bits(t))
         [] name = "Sle" -> AsSigned(x, Bits(t)) <= AsSigned(y, Bits(t))

\* C19: for every comparison operator (Eq, Ne, Ult, Ule, Slt, Sle, Lt, Lte),
\* when both operands resolve to constants a and b, evaluate returns
\* Const(1, Boolean) if the comparison of a and b is true and
\* Const(0, Boolean) otherwise, never the instruction's own id.
C19_Comparisons ==
    (/\ Evaluated
     /\ IsBinaryOf({"Eq", "Ne", "Ult", "Ule", "Slt", "Sle", "Lt", "Lte"})
     /\ BothOperandsConst)
    => res.value =
          Ok(Const(IF Compare(ins.operation.operator.name,
                              ConstValue(ins.operation.lhs),
                              ConstValue(ins.operation.rhs),
                              nodes[ins.operation.lhs].type)
                   THEN 1 ELSE 0,
                   Boolean))

\* C20: for every fixed-width unsigned type T of width w and all constants
\* a and b with b mod 2^w # 0, evaluate on Udiv returns
\* Const((a mod 2^w) div (b mod 2^w), T) and evaluate on Urem returns
\* Const((a mod 2^w) mod (b mod 2^w), T).
C20_UnsignedDivision ==
    (/\ Evaluated
     /\ IsBinaryOf({"Udiv", "Urem"})
     /\ BothOperandsConst
     /\ ins.res_type.kind = "Unsigned"
     /\ ConstValue(ins.operation.rhs) % TypeModulus(ins.res_type) # 0)
    => LET m == TypeModulus(ins.res_type)
           a == ConstValue(ins.operation.lhs) % m
           b == ConstValue(ins.operation.rhs) % m
       IN res.value = Ok(Const(IF IsBinaryOf({"Udiv"}) THEN a \div b ELSE a % b,
                               ins.res_type))

InternedConsts == {i \in DOMAIN interned : interned[i].eval.kind = "Const"}

\* C13: over any sequence of folds whose results are turned into node ids
\* with to_index, two results with the same (value, type) receive the same
\* NodeId, two results with different (value, type) receive different
\* NodeIds, and an id once returned for a (value, type) keeps denoting that
\* constant.
C13_Interned ==
    /\ \A i \in InternedConsts, j \in InternedConsts :
          (interned[i].eval = interned[j].eval) <=> (interned[i].id = interned[j].id)
    /\ \A i \in InternedConsts :
          /\ interned[i].id \in DOMAIN nodes
          /\ nodes[interned[i].id]
                = ConstNode(interned[i].eval.value, interned[i].eval.type)

\* Two folds have given Const(4, Unsigned(8)), and both results have
\* received the id of one new node
C13_Witness ==
    /\ Len(interned) = 2
    /\ interned[1].eval = Const(4, Unsigned(8))
    /\ interned[2].eval = Const(4, Unsigned(8))
    /\ interned[1].id = interned[2].id
    /\ interned[1].id > Len(Arena)

\* The variant of an operation and, for a Binary, its operator
Shape(op) ==
    IF op.variant = "Binary" THEN <<"Binary", op.operator.name>> ELSE <<op.variant, "">>

\* An operation with every embedded NodeId blanked: what is left are the
\* variant, the fields that are not NodeIds and the lengths of the lists
Frame(op) ==
    CASE op.variant = "Binary" ->
            [op EXCEPT !.lhs = 0, !.rhs = 0,
                       !.predicate = IF IsSome(op.predicate) THEN Some(0) ELSE None]
      [] op.variant \in {"Cast", "Truncate", "Not", "Constrain", "Jne", "Jeq"} ->
            [op EXCEPT !.value = 0]
      [] op.variant \in {"Jmp", "Nop"} -> op
      [] op.variant = "Phi" ->
            [op EXCEPT !.root = 0,
                       !.block_args = [i \in DOMAIN op.block_args |->
                                          <<0, op.block_args[i][2]>>]]
      [] op.variant = "Cond" ->
            [op EXCEPT !.condition = 0, !.val_true = 0, !.val_false = 0]
      [] op.variant = "Load" -> [op EXCEPT !.index = 0]
      [] op.variant = "Store" -> [op EXCEPT !.index = 0, !.value = 0]
      [] op.variant = "Intrinsic" -> [op EXCEPT !.args = [i \in DOMAIN op.args |-> 0]]
      [] op.variant = "Call" ->
            [op EXCEPT !.arguments = [i \in DOMAIN op.arguments |-> 0]]
      [] op.variant = "Return" -> [op EXCEPT !.values = [i \in DOMAIN op.values |-> 0]]
      [] op.variant = "Result" -> [op EXCEPT !.call_instruction = 0]

\* C14: Operation::opcode is total over all variants and all operators,
\* distinct variants or operators map to distinct Opcode constructors, the
\* result does not depend on the NodeId operands, and Load, Store, Call and
\* Intrinsic carry their array id, func id and intrinsic opcode as payload.
C14_Opcode ==
    (res.call = "opcode")
    => LET op == ins.operation
           oc == Unwrap(res.value)
       IN /\ oc.name \in OpcodeNames
          /\ \A other \in Operations :
                /\ (Shape(other) = Shape(op)) <=> (OperationOpcode(other).name = oc.name)
                /\ (Frame(other) = Frame(op)) => (OperationOpcode(other) = oc)
          /\ op.variant \in {"Load", "Store"} => oc = OpcodeWith(op.variant, op.array_id)
          /\ op.variant = "Call" => oc = OpcodeWith("Call", op.func_id)
          /\ op.variant = "Intrinsic" => oc = OpcodeWith("Intrinsic", op.opcode)
          /\ op.variant \notin {"Load", "Store", "Call", "Intrinsic"}
                => oc = Opcode(oc.name)

\* The opcode of a Store to the array 2 is Store(2)
C14_Witness ==
    /\ res.call = "opcode"
    /\ ins.operation = Store(2, 1, 3)
    /\ res.value = Some(OpcodeWith("Store", 2))

\* C16: for every Operation op and every function f on NodeIds,
\* op.map_id_mut(f) leaves op equal to the operation returned by
\* op.map_id(f): every embedded NodeId, a Phi's root and a Binary's
\* predicate included, is replaced by its image under f.
C16_MapIdMut ==
    (res.call = "map_id_mut") => ins.operation = MapId(Unwrap(res.value), res.f)

\* C17: for every Operation op, the sequence of ids for_each_id passes to
\* the visitor equals the sequence of ids map_id passes to f, so every
\* embedded NodeId is visited.
C17_ForEachId ==
    (res.call = "for_each_id") => Unwrap(res.value) = MapIdCalls(ins.operation)

\* C18: map_id and map_id_mut preserve the variant and leave every field
\* that is not a NodeId unchanged for every f, and the lengths and order of
\* the argument lists are unchanged.
C18_Frame ==
    /\ (res.call = "map_id") => Frame(Unwrap(res.value)) = Frame(ins.operation)
    /\ (res.call = "map_id_mut") => Frame(ins.operation) = Frame(Unwrap(res.value))

\* map_id with the function that swaps the ids 1 and 3 has rewritten the
\* ids of a phi with two arguments and kept their blocks
C18_Witness ==
    /\ res.call = "map_id"
    /\ ins.operation = Phi(1, << <<1, 1>>, <<3, 2>> >>)
    /\ res.value = Some(Phi(3, << <<3, 1>>, <<1, 2>> >>))

\* The operator the claim names for a surface operator that depends on the
\* numeric kind of the type
ByKind(op_kind, type_kind) ==
    CASE op_kind \in {"Less", "Greater"} ->
            (IF type_kind = "Signed" THEN "Slt"
             ELSE IF type_kind = "Unsigned" THEN "Ult" ELSE "Lt")
      [] op_kind \in {"LessEqual", "GreaterEqual"} ->
            (IF type_kind = "Signed" THEN "Sle"
             ELSE IF type_kind = "Unsigned" THEN "Ule" ELSE "Lte")
      [] op_kind = "Divide" ->
            (IF type_kind = "Signed" THEN "Sdiv"
             ELSE IF type_kind = "Unsigned" THEN "Udiv" ELSE "Div")
      [] op_kind = "Modulo" ->
            (IF type_kind = "Signed" THEN "Srem" ELSE "Urem")

\* C15: Binary::from_ast(kind, type, lhs, rhs) builds a Binary with
\* predicate None; Greater and GreaterEqual give the less-than and
\* less-or-equal operator of the type's numeric kind with the operands
\* swapped; Less, LessEqual, Divide and Modulo keep the operand order and
\* select Slt/Sle/Sdiv/Srem for signed, Ult/Ule/Udiv/Urem for unsigned and
\* Lt/Lte/Div for the field; Subtract gives Sub with max_rhs_value = 0;
\* Modulo on NativeField is rejected and gives no Binary.
C15_FromAst ==
    (res.call = "from_ast")
    => LET a == res.args
           b == Unwrap(res.value)
           numeric == a.op_type.kind \in {"Signed", "Unsigned", "NativeField"}
           field_modulo == a.op_kind = "Modulo" /\ a.op_type.kind = "NativeField"
       IN /\ (a.op_kind \in {"Greater", "GreaterEqual"} /\ numeric)
                => b = Binary(Operator(ByKind(a.op_kind, a.op_type.kind)),
                              a.rhs, a.lhs, None)
          /\ (/\ a.op_kind \in {"Less", "LessEqual", "Divide", "Modulo"}
              /\ numeric /\ ~field_modulo)
                => b = Binary(Operator(ByKind(a.op_kind, a.op_type.kind)),
                              a.lhs, a.rhs, None)
          /\ a.op_kind = "Subtract"
                => b = Binary(SubOperator("Sub", 0), a.lhs, a.rhs, None)
          /\ field_modulo
                => b = Panic("not implemented: Modulo operation with Field elements is not supported")
          /\ a.op_kind \in {"Add", "Multiply", "Equal", "NotEqual", "And", "Or",
                            "Xor", "ShiftLeft", "ShiftRight"}
                => /\ b.variant = "Binary"
                   /\ b.lhs = a.lhs /\ b.rhs = a.rhs /\ b.predicate = None

\* from_ast has built Ult(3, 1) for Greater(1, 3) on 8 bits unsigned
C15_Witness ==
    /\ res.call = "from_ast"
    /\ res.args = [op_kind |-> "Greater", op_type |-> Unsigned(8), lhs |-> 1, rhs |-> 3]
    /\ res.value = Some(Binary(Operator("Ult"), 3, 1, None))

\* The Binary at hand has one operand that is not a constant, x, and the
\* other is the constant of value v (on the left when `left`)
ConstAndVar(left, v) ==
    LET c == IF left THEN ins.operation.lhs ELSE ins.operation.rhs
        x == IF left THEN ins.operation.rhs ELSE ins.operation.lhs
    IN IsConstId(c) /\ ConstValue(c) = v /\ ~IsConstId(x)

\* The operand that is not a constant, and the constant operand as resolved
VarOperand(left) ==
    VarOrInstruction(IF left THEN ins.operation.rhs ELSE ins.operation.lhs)

ConstOperand(left) ==
    LET c == IF left THEN ins.operation.lhs ELSE ins.operation.rhs
    IN Const(ConstValue(c), nodes[c].type)

\* The identities of C21 other than those of Mul
IdentitiesButMul ==
    /\ (IsBinaryOf({"Add", "SafeAdd", "Or", "Xor"}) /\ ConstAndVar(TRUE, 0))
          => res.value = Ok(VarOperand(TRUE))
    /\ (IsBinaryOf({"Add", "SafeAdd", "Sub", "SafeSub", "Or", "Xor", "Shl", "Shr"})
           /\ ConstAndVar(FALSE, 0))
          => res.value = Ok(VarOperand(FALSE))
    /\ (IsBinaryOf({"And", "Or"}) /\ SameOperands /\ ~IsConstId(ins.operation.lhs))
          => res.value = Ok(VarOrInstruction(ins.operation.lhs))
    /\ (IsBinaryOf({"And", "Shl", "Shr"}) /\ ConstAndVar(TRUE, 0))
          => res.value = Ok(ConstOperand(TRUE))
    /\ (IsBinaryOf({"And"}) /\ ConstAndVar(FALSE, 0))
          => res.value = Ok(ConstOperand(FALSE))
    /\ (IsBinaryOf({"Ult", "Lt"}) /\ ConstAndVar(FALSE, 0))
          => res.value = Ok(Const(0, Boolean))
    /\ (IsBinaryOf({"Ule", "Lte"}) /\ ConstAndVar(TRUE, 0))
          => res.value = Ok(Const(1, Boolean))

\* The identities of Mul: 1 * x and x * 1 give x, 0 * x and x * 0 give the
\* constant 0
IdentitiesOfMul ==
    /\ ConstAndVar(TRUE, 1) => res.value = Ok(VarOperand(TRUE))
    /\ ConstAndVar(FALSE, 1) => res.value = Ok(VarOperand(FALSE))
    /\ ConstAndVar(TRUE, 0) => res.value = Ok(ConstOperand(TRUE))
    /\ ConstAndVar(FALSE, 0) => res.value = Ok(ConstOperand(FALSE))

OperandTypesAgree ==
    GetObjectType(nodes, ins.operation.lhs) = GetObjectType(nodes, ins.operation.rhs)

BitLength(v) == CHOOSE n \in 0..(FieldBits + 1) : v < Pow2(n) /\ (n > 0 => v >= Pow2(n - 1))

\* The current bit size of the operand of the Cast at hand
CastOperandBits ==
    LET value == ins.operation.value IN
    IF value \notin DOMAIN nodes THEN 0
    ELSE IF nodes[value].kind = "Const" THEN BitLength(nodes[value].value)
    ELSE Bits(nodes[value].type)

\* C22: truncate_required returns true exactly for a Binary with operator
\* Udiv, Sdiv, Urem, Srem, Eq, Ne, Ult, Ule, Slt, Sle, Lt, Lte, And, Or,
\* Xor, Shl or Shr, for Not, Constrain, Store, Intrinsic and Return, and for
\* a Cast whose result type is strictly wider than the current bit size of
\* its operand (0 bits for an operand absent from the context, the bit
\* length of the value for a constant); it returns false otherwise.
C22_TruncateRequired ==
    res.call = "truncate_required"
    => (res.value = Some(TRUE)
        <=> \/ IsBinaryOf({"Udiv", "Sdiv", "Urem", "Srem", "Eq", "Ne", "Ult", "Ule",
                            "Slt", "Sle", "Lt", "Lte", "And", "Or", "Xor", "Shl",
                            "Shr"})
            \/ ins.operation.variant \in {"Not", "Constrain", "Store", "Intrinsic",
                                          "Return"}
            \/ /\ ins.operation.variant = "Cast"
               /\ Bits(ins.res_type) > CastOperandBits)

\* A cast of the Unsigned(8) constant 3 to Unsigned(8) requires a
\* truncation: the constant counts for the 2 bits of its value
C22_Witness ==
    /\ res.call = "truncate_required"
    /\ ins.operation = Cast(6)
    /\ nodes[6] = ConstNode(3, Unsigned(8))
    /\ ins.res_type = Unsigned(8)
    /\ res.value = Some(TRUE)

\* evaluate has returned a constant
Folded == IsOk(res.value) /\ res.value.eval.kind = "Const"

\* C23: evaluating a Binary Lt or Lte whose operands or result type are not
\* NativeField panics or returns an error and never gives a folded result.
C23_FieldComparisons ==
    (/\ Evaluated /\ IsBinaryOf({"Lt", "Lte"})
     /\ \/ GetObjectType(nodes, ins.operation.lhs) # NativeField
        \/ GetObjectType(nodes, ins.operation.rhs) # NativeField
        \/ ins.res_type # NativeField)
    => ~Folded

\* C24: evaluate returns the own id of the instruction for every Phi,
\* whatever its arguments resolve to, without a call of the resolver, and
\* for Truncate, Jmp, Jeq, Jne, Load, Store, Call, Return, Result,
\* Intrinsic, Nop and Binary Assign.
C24_NeverFolded ==
    Evaluated
    => /\ ins.operation.variant = "Phi"
            => res.value = Ok(VarOrInstruction(ins.id)) /\ res.resolved = <<>>
       /\ (\/ ins.operation.variant \in
                 {"Truncate", "Jmp", "Jeq", "Jne", "Load", "Store", "Call",
                  "Return", "Result", "Intrinsic", "Nop"}
           \/ IsBinaryOf({"Assign"}))
            => res.value = Ok(VarOrInstruction(ins.id))

\* A Phi whose arguments are all the constant 0 has been evaluated to its
\* own id
C24_Witness ==
    /\ Evaluated
    /\ ins.operation.variant = "Phi"
    /\ Len(ins.operation.block_args) = 2
    /\ \A i \in 1..2 : /\ IsConstId(ins.operation.block_args[i][1])
                        /\ ConstValue(ins.operation.block_args[i][1]) = 0
    /\ res.value = Ok(VarOrInstruction(SelfId))

\* The operands of the Binary, Cast or Not at hand
OperandIds ==
    CASE ins.operation.variant = "Binary" -> {ins.operation.lhs, ins.operation.rhs}
      [] ins.operation.variant \in {"Cast", "Not"} -> {ins.operation.value}
      [] OTHER -> {}

\* Every operand has the result type of the instruction and every constant
\* operand is below 2^bits of its type
TypedInRangeOperands ==
    \A id \in OperandIds :
        /\ id \in DOMAIN nodes
        /\ nodes[id].type = ins.res_type
        /\ nodes[id].kind = "Const" => nodes[id].value < Pow2(Bits(nodes[id].type))

EmbeddedIds ==
    LET op == ins.operation IN
    CASE op.variant = "Binary" -> {op.lhs, op.rhs} \cup {Unwrap(p) : p \in {op.predicate} \ {None}}
      [] op.variant \in {"Cast", "Not", "Constrain", "Truncate", "Jne", "Jeq"} ->
            {op.value}
      [] op.variant = "Cond" -> {op.condition, op.val_true, op.val_false}
      [] op.variant = "Phi" ->
            {op.root} \cup {op.block_args[i][1] : i \in DOMAIN op.block_args}
      [] op.variant = "Load" -> {op.index}
      [] op.variant = "Store" -> {op.index, op.value}
      [] op.variant = "Return" -> {op.values[i] : i \in DOMAIN op.values}
      [] op.variant = "Result" -> {op.call_instruction}
      [] OTHER -> {}

ConstrainOfOne ==
    /\ ins.operation.variant = "Constrain"
    /\ IsConstId(ins.operation.value)
    /\ ConstValue(ins.operation.value) = 1

\* C26: with the default resolver, whenever evaluate returns
\* Ok(VarOrInstruction(id)), id is the own id of the instruction, the dummy
\* id (for a Constrain of the constant 1 only) or one of the node ids held
\* by the operation of the instruction.
C26_NoNewReference ==
    (Evaluated /\ IsOk(res.value) /\ res.value.eval.kind = "VarOrInstruction")
    => LET id == res.value.eval.id IN
       \/ id = ins.id
       \/ id = DummyId /\ ConstrainOfOne
       \/ id \in EmbeddedIds

\* A Cond on a constant condition has returned one of its branches, a node
\* other than the instruction
C26_Witness ==
    /\ Evaluated
    /\ ins.operation.variant = "Cond"
    /\ IsConstId(ins.operation.condition)
    /\ IsOk(res.value) /\ res.value.eval.kind = "VarOrInstruction"
    /\ res.value.eval.id # ins.id
    /\ res.value.eval.id \in {ins.operation.val_true, ins.operation.val_false}

\* The operands evaluate_with resolves, in the order of the source
ResolvedOperands ==
    LET op == ins.operation IN
    CASE op.variant = "Binary" -> <<op.lhs, op.rhs>>
      [] op.variant \in {"Cast", "Not", "Constrain"} -> <<op.value>>
      [] op.variant = "Cond" -> <<op.condition>>
      [] OTHER -> <<>>

\* The resolver fails on the i-th operand and has resolved those before it
FirstError(i) ==
    LET eval_fn == FailingResolver(nodes, res.failing) IN
    /\ ResolvedOperands[i] \in res.failing
    /\ \A j \in 1..(i - 1) : IsOk(eval_fn[ResolvedOperands[j]])

\* The part of C27 on the result and on the calls of the resolver
ErrorReturnedAtOnce ==
    res.call = "evaluate_with"
    => /\ \A i \in DOMAIN ResolvedOperands :
             FirstError(i)
             => /\ res.value = Err("cannot resolve", ResolvedOperands[i])
                /\ res.resolved = SubSeq(ResolvedOperands, 1, i)
       /\ IsOk(res.value) => res.resolved = ResolvedOperands

\* The part of C27 on the context and the instruction
EvaluateWithFrame ==
    (res'.call = "evaluate_with" /\ res.call # "evaluate_with")
    => (nodes' = nodes /\ ins' = ins)

\* C27: if the resolver passed to evaluate_with returns an error for an
\* operand, evaluate_with returns that same error and resolves no further
\* operand (for a Binary, lhs is resolved before rhs and an error on lhs
\* means rhs is never resolved); the context and the instruction are
\* unchanged whether evaluate_with returns Ok or Err.
C27_ResolverError == []ErrorReturnedAtOnce /\ [][EvaluateWithFrame]_vars

\* A Binary whose two operands both fail to resolve has returned the error
\* of lhs after the one call for lhs
C27_Witness ==
    /\ res.call = "evaluate_with"
    /\ ins.operation.variant = "Binary"
    /\ ins.operation.lhs = 4 /\ ins.operation.rhs = 1
    /\ res.failing = {1, 4}
    /\ res.value = Err("cannot resolve", 4)
    /\ res.resolved = <<4>>

====
